---- MODULE Spec2Model ----
(***************************************************************************)
(* AstraDB (bitxenia/astradb): the key repository of a node, the Database  *)
(* wrapper around one OrbitDB event log, and the replication of the logs   *)
(* between a Collaborator and a Reader.                                    *)
(*                                                                         *)
(*   src/src/keyRepository.ts   KeyRepository (keys, keyDbs, mutex)        *)
(*   src/src/database.ts        Database (initNew, initExisting, syncDb,   *)
(*                              waitFor, updateDatabase, newEntryAdded)    *)
(*                                                                         *)
(* The OrbitDB log itself is an external collaborator.  It is modelled by  *)
(* what the calls made in database.ts rely on: an entry carries a Lamport  *)
(* clock and the writer's identity, a local append takes the clock after   *)
(* every entry known locally, all() lists the local entries oldest first   *)
(* (clock, then identity), iterator() lists them newest first, and a head  *)
(* exchange with a peer merges the peer's entries into the local copy.     *)
(***************************************************************************)
EXTENDS Integers, Sequences, FiniteSets, TLC

----------------------------------------------------------------------------
(* Bounds of the model *)

\* client calls (add / get / getAllKeys) issued in all, over both nodes, when
\* the calls use one key
MaxCalls == 2
\* the same when the calls use two keys
MaxCallsTwoKeys == 2
\* waitFor ticks after which the elapsed time is no longer counted up
MaxPolls == 1

Nodes == {"A", "B"}
Keys == {"k1", "k2"}
\* the value the i-th client call appends when it is an add
Values == <<"v1", "v2", "v3", "v4", "v5">>

None == "none"
DbName == "db"

----------------------------------------------------------------------------
(* Program constants *)

\* database.ts: waitFor(..., 100, msTimeout)
PollInterval == 100

\* keyRepository.ts:41  this.keyDb.initExisting()      -- no argument
\* keyRepository.ts:122 valueDb.initExisting()         -- no argument
\* The msTimeout parameter is a set: empty when the caller passes nothing
\* (undefined), {t} when it passes t.
KeyDbTimeout == {}
ValueDbTimeout == {}

\* the calls of the free workload of the liveness checks, on one key; the
\* liveness checks follow longer runs in scripted workloads
MaxCallsFair == 1
\* client calls issued when the options of the nodes vary
MaxCallsOptions == 1

\* A workload names the keys the client calls use, how many calls are issued,
\* and whether the options given to the nodes vary (offlineMode, the storage,
\* a KeyRepository used on its own) or are the defaults of a network of one
\* Collaborator and one Reader.
Workload(ks, c, o) ==
  [keys |-> ks, calls |-> c, options |-> o, events |-> 0, timeouts |-> {},
   script |-> <<>>, loops |-> {}, stranger |-> FALSE, polls |-> {},
   faults |-> {}]

\* events of the peer-to-peer network the ConnectionManager reacts to
\* (providers found, turns of the reconnection service, connections lost)
MaxEvents == 3
\* the same in the liveness checks
MaxEventsFair == 1

\* A workload of the ConnectionManager: no client calls, e network events.
ConnectionWorkload(e) ==
  [keys |-> {}, calls |-> 0, options |-> FALSE, events |-> e, timeouts |-> {},
   script |-> <<>>, loops |-> {}, stranger |-> FALSE, polls |-> {},
   faults |-> {}]

\* A workload of the ConnectionManager in which peers that are no nodes of the
\* database connect to the nodes, and the nodes to their bootstrap peers.
StrangerWorkload == [ConnectionWorkload(0) EXCEPT !.stranger = TRUE]

\* A workload of the ConnectionManager in which the peer store of the nodes ns
\* can lack the record of a peer that has just connected.
PollWorkload(ns) == [ConnectionWorkload(0) EXCEPT !.polls = ns]

\* A workload of the start of the nodes in which one step of
\* ConnectionManager.init can fail on each node.
FaultWorkload == [ConnectionWorkload(0) EXCEPT !.faults = {"start"}]

\* client calls issued when an append to the log of the keys can fail
MaxCallsFault == 2

\* A workload of client calls on one key in which `keyDb.add(key)` can throw.
AppendFaultWorkload ==
  [Workload({"k1"}, MaxCallsFault, FALSE) EXCEPT !.faults = {"append"}]

\* the time one step of the clock takes: half a poll interval, so that an
\* event falls in the first or in the second half of the time between two polls
Slot == PollInterval \div 2
\* the time after which the clock of a call of initExisting is not advanced
MaxTime == 300
\* the msTimeout arguments a call of Database.initExisting is given: nothing
\* (undefined), a multiple of the poll interval, and a value between two polls
Timeouts == {{}, {100}, {150}}

\* A workload of one call of Database.initExisting(msTimeout) with a timeout
\* of ts, on a log of its own.
InitExistingWorkload(ts) ==
  [keys |-> {}, calls |-> 0, options |-> FALSE, events |-> 0, timeouts |-> ts,
   script |-> <<>>, loops |-> {}, stranger |-> FALSE, polls |-> {},
   faults |-> {}]

\* A workload whose client calls are the calls of s, issued in this order.
ScriptedWorkload(s) ==
  [keys |-> {s[i].key : i \in 1..Len(s)}, calls |-> Len(s), options |-> FALSE,
   events |-> 0, timeouts |-> {}, script |-> s, loops |-> {},
   stranger |-> FALSE, polls |-> {},
   faults |-> {}]

\* the Collaborator adds a key, the Reader gets it, the Collaborator adds a
\* second key
KeyScript ==
  <<[node |-> "A", op |-> "add", key |-> "k1"],
    [node |-> "B", op |-> "get", key |-> "k1"],
    [node |-> "A", op |-> "add", key |-> "k2"]>>

\* the Collaborator adds a key, the Reader gets it and then adds a key of its
\* own
AddScript ==
  <<[node |-> "A", op |-> "add", key |-> "k1"],
    [node |-> "B", op |-> "get", key |-> "k1"],
    [node |-> "B", op |-> "add", key |-> "k2"]>>

\* the Collaborator adds two keys, then the Reader and the Collaborator list
\* the keys
OrderScript ==
  <<[node |-> "A", op |-> "add", key |-> "k1"],
    [node |-> "A", op |-> "add", key |-> "k2"],
    [node |-> "B", op |-> "getAllKeys", key |-> None],
    [node |-> "A", op |-> "getAllKeys", key |-> None]>>

\* the Collaborator adds two values to a key and gets the key
AppendScript ==
  <<[node |-> "A", op |-> "add", key |-> "k1"],
    [node |-> "A", op |-> "add", key |-> "k1"],
    [node |-> "A", op |-> "get", key |-> "k1"]>>

\* both nodes add a value to the same key, then the Collaborator gets the key
MergeScript ==
  <<[node |-> "A", op |-> "add", key |-> "k1"],
    [node |-> "B", op |-> "add", key |-> "k1"],
    [node |-> "A", op |-> "get", key |-> "k1"]>>

\* both nodes add a value to the same key, then the Collaborator lists the keys
SameKeyScript ==
  <<[node |-> "A", op |-> "add", key |-> "k1"],
    [node |-> "B", op |-> "add", key |-> "k1"],
    [node |-> "A", op |-> "getAllKeys", key |-> None]>>

\* both nodes add a value to the same key
WriteScript ==
  <<[node |-> "A", op |-> "add", key |-> "k1"],
    [node |-> "B", op |-> "add", key |-> "k1"]>>

\* the Collaborator adds a key and the Reader gets it
ReadScript ==
  <<[node |-> "A", op |-> "add", key |-> "k1"],
    [node |-> "B", op |-> "get", key |-> "k1"]>>

\* the Reader adds a key and the Collaborator gets it
LearnScript ==
  <<[node |-> "B", op |-> "add", key |-> "k1"],
    [node |-> "A", op |-> "get", key |-> "k1"]>>

\* the background services: the reconciliation service of the KeyRepository
\* and the three services of the ConnectionManager
ServiceNames ==
  {"updateRepository", "searchForProviders", "provideDB", "reconnectToProviders"}

\* connections closed while the services are followed
MaxEventsLoop == 1
\* dials in flight to one peer when a pass of a service dials it
MaxDials == 1

\* A workload that follows the passes of service s on the nodes ns: no client
\* calls. The connections are closed only where a service reacts to it.
LoopWorkload(ns, s) ==
  [keys |-> {}, calls |-> 0, options |-> FALSE,
   events |-> IF s = "reconnectToProviders" THEN MaxEventsLoop ELSE 0,
   timeouts |-> {}, script |-> <<>>, loops |-> {<<n, s>> : n \in ns},
   stranger |-> FALSE, polls |-> {},
   faults |-> {}]

LoopWorkloads ==
  {LoopWorkload(Nodes, "updateRepository"),
   LoopWorkload(Nodes, "provideDB"),
   LoopWorkload({"B"}, "searchForProviders"),
   LoopWorkload({"B"}, "reconnectToProviders")}

\* the services as the liveness checks of the key repository follow them: one
\* node for each service, and no connection is closed
FairLoopWorkloads ==
  {LoopWorkload({"B"}, "updateRepository"),
   LoopWorkload({"A"}, "provideDB"),
   LoopWorkload({"B"}, "searchForProviders"),
   [LoopWorkload({"B"}, "reconnectToProviders") EXCEPT !.events = 0]}

\* a small workload for every component, so that every action is taken in
\* every specification
BaseWorkloads == {Workload({"k1"}, MaxCallsFair, FALSE),
                  ConnectionWorkload(MaxEventsFair),
                  StrangerWorkload,
                  PollWorkload({"B"}),
                  InitExistingWorkload(Timeouts),
                  ScriptedWorkload(ReadScript)} \cup FairLoopWorkloads

FairWorkloads ==
  BaseWorkloads
    \cup {ScriptedWorkload(WriteScript), ScriptedWorkload(LearnScript)}

\* the workloads of the key repository: client calls on one key and on two
\* keys, in any order, and the scripted calls
Workloads ==
  BaseWorkloads
    \cup {Workload({"k1"}, MaxCalls, FALSE),
          Workload({"k1", "k2"}, MaxCallsTwoKeys, FALSE),
          AppendFaultWorkload,
          ScriptedWorkload(OrderScript),
          ScriptedWorkload(AppendScript),
          ScriptedWorkload(MergeScript),
          ScriptedWorkload(SameKeyScript)}

\* the workloads of the start of a node: its options and the failures of
\* the steps of its initialization
StartWorkloads ==
  BaseWorkloads \cup {Workload({"k1"}, MaxCallsOptions, TRUE), FaultWorkload}

\* the workloads of the ConnectionManager: the events of the network and the
\* passes of the services
ConnectionWorkloads ==
  BaseWorkloads \cup {ConnectionWorkload(MaxEvents)} \cup LoopWorkloads

EventLoopWorkloads ==
  BaseWorkloads \cup LoopWorkloads
    \cup {ScriptedWorkload(KeyScript), ScriptedWorkload(AddScript)}

\* AstraDbInit.datastore / blockstore: not given, given and in memory, given
\* and persistent
StorageKinds == {"absent", "memory", "persistent"}

\* connectionManager.ts: the peer ids of the two gateways connectToProvider skips
TrustlessGateway == "bagqbeaavnb2hi4dthixs6ndfozsxe3dbnzsc42lpf4"
FourEverland == "bagqbeaa7nb2hi4dthixs65dsovzxi3dfonzs2z3borsxoylzfzwgs3tlf4"
\* a provider id that is not a PeerId
NotAPeerId == "notAPeerId"
\* what routing.findProviders can yield
Providers == Nodes \cup {TrustlessGateway, FourEverland, NotAPeerId}

\* a libp2p peer of the network that is no node of the database
Stranger == "stranger"
\* the peers a node can be connected to
Peers == Nodes \cup {Stranger}
\* manageNewConnection: the value of the tag "astradb-peer"
TagValue == 100
\* manageNewConnection: `if (retryCount > 10)`
MaxRetries == 10
\* the steps of ConnectionManager.init that can throw before init returns:
\* fs.addBytes, pins.isPinned / pins.add and ipfs.gc in constructProviderCID,
\* libp2p.handle, and multiaddr(bootstrapPeer) on a malformed address
StartFaults == {"addBytes", "pin", "gc", "handle", "multiaddr"}

\* connectionManager.ts: the protocols a node registers with libp2p.handle
Protocol == "/astradb/" \o DbName
ProviderProtocol == "/astradb/" \o DbName \o "/provider"

VARIABLES
  isCollaborator,  \* KeyRepository.isCollaborator, per node
  offlineMode,     \* the offlineMode argument of KeyRepository.init, per node
  rank,            \* order of the writers' identities (tie-break of equal clocks)
  oplog,           \* oplog[n][name]: the entries of log `name` known at node n
  openDb,          \* openDb[n][name]: node n holds log `name` open (orbitdb.open)
  joined,          \* joined[n][name]: peers whose heads reached n ("join" events)
  valueDbs,        \* the Database objects constructed for the value log of a
                   \* key, per node and key, in the order of construction:
                   \* [name, entriesSeen, listening]
  fetched,         \* history: get(key) has been called on the node
  storage,         \* AstraDbInit.datastore and blockstore, per node
  direct,          \* the KeyRepository of the node is used on its own, without
                   \* createAstraDb
  initState,       \* progress of the start of the node: new, noStorage, crashed,
                   \* handlers, initFailed (ConnectionManager.init threw),
                   \* started, and of KeyRepository.init: syncing,
                   \* ready, failed
  keyDbSync,       \* syncDb of the key database: [synced, elapsed]
  entriesSeen,     \* keyDb.entriesSeen
  updatePending,   \* an "update" event of the key database awaits its listener
  keys,            \* KeyRepository.keys (a Set: insertion order, no duplicates)
  keyDbs,          \* KeyRepository.keyDbs: key -> Database object (0: no entry)
  dbObjects,       \* Database objects constructed so far per key
  locked,          \* KeyRepository.mutex is held
  waiters,         \* calls of mutex.runExclusive waiting for the mutex (FIFO)
  body,            \* critical bodies in progress
  workload,        \* the keys the client calls use and how many calls are issued
  calls,           \* client calls issued so far
  appended,        \* history: values the node's own add calls appended, per key
  fresh,           \* history: value of the last local add if nothing was merged since
  bootstrap,       \* the bootstrapProviderPeers given to ConnectionManager.init
  startFault,      \* the step of ConnectionManager.init that throws when the
                   \* node reaches it, per node (None: no step throws)
  connections,     \* libp2p: the peers the node has an open connection to
  dials,           \* libp2p: dials in flight, per node and peer
  peerConnect,     \* "peer:connect" events whose manageNewConnection has not run
  connectedProviders, \* ConnectionManager.connectedProviders (the ids)
  tagged,          \* the value of the tag "astradb-peer" of each peer in the
                   \* node's peer store (0: no tag)
  skipped,         \* peers whose last manageNewConnection gave up because the
                   \* peer store had no record of them
  retryCount,      \* manageNewConnection: retryCount of the handler of each
                   \* "peer:connect" event that has not finished
  lastConnect,     \* history: the last call of connectToProvider: the peer,
                   \* whether a connection to it existed, whether it dialed
  events,          \* network events so far
  persisted,       \* the node's storage holds the logs of an earlier run
  atOpen,          \* history: the keys in the node's copy of the key database
                   \* when init scanned it (initNew, or initExisting after syncDb)
  probe,           \* a call of Database.initExisting(msTimeout) on a log of
                   \* its own: [pc, msTimeout, now, synced, elapsedTime,
                   \* joinedAt, result]
  services,        \* the startService loops, per node and service: [pc, error];
                   \* pc is off, run (the service function runs) or sleep
                   \* (the wait between two passes), error tells whether the
                   \* last pass or attempt logged an error
  provided,        \* the outcome of the node's last routing.provide: none,
                   \* failed, ok
  pinned           \* the provider CID is pinned in the node's ipfs

vars == <<isCollaborator, offlineMode, rank, oplog, openDb, joined, initState,
          keyDbSync, entriesSeen, updatePending, keys, keyDbs, dbObjects,
          locked, waiters, body, workload, calls, appended, fresh,
          storage, direct, valueDbs, fetched, bootstrap, connections, dials,
          peerConnect, connectedProviders, tagged, skipped, retryCount, lastConnect,
          events, probe, startFault,
          persisted, atOpen, services, provided, pinned>>

config == <<isCollaborator, offlineMode, rank, workload, storage, direct,
            bootstrap, persisted, startFault>>

\* the state of the KeyRepository, of its databases and of its callers
repository == <<valueDbs, fetched, oplog, openDb, joined, initState, keyDbSync,
                entriesSeen, updatePending, keys, keyDbs, dbObjects, locked,
                waiters, body, calls, appended, fresh>>

\* the background services and what they provide
service == <<services, provided, pinned>>

\* the state of libp2p's connections and of the ConnectionManager
network == <<connections, dials, peerConnect, connectedProviders, tagged, skipped,
             retryCount,
             lastConnect, events>>

----------------------------------------------------------------------------
(* Log names *)

\* keyRepository.ts:98, :118   `${this.dbName}::${key}`
ValueDbName(key) == DbName \o "::" \o key

\* a value database opened under the name of the key database
KeyIndexName(key) == DbName

\* keyRepository.ts:98   newKeyAdded: const valueDbName = `${this.dbName}::${key}`
NewKeyAddedDbName(key) == DbName \o "::" \o key

\* keyRepository.ts:118  getValueDb: const valueDbName = `${this.dbName}::${key}`
GetValueDbName(key) == DbName \o "::" \o key

LogNames == {DbName} \cup {ValueDbName(k) : k \in Keys}

----------------------------------------------------------------------------
(* The OrbitDB event log, as database.ts uses it *)

MaxClock(S) == IF S = {} THEN 0 ELSE CHOOSE c \in {e.clock : e \in S} :
                                        \A e \in S : e.clock <= c

\* an append that counts only the writer's own entries
LogAppendEntryOwnClock(S, n, x) ==
  [clock |-> Cardinality({e \in S : e.id = n}) + 1, id |-> n, value |-> x]

\* openDb.add(value): the new entry follows every entry known locally
LogAppendEntry(S, n, x) == [clock |-> MaxClock(S) + 1, id |-> n, value |-> x]

\* an order by the writer's identity first
BeforeIdentityFirst(e, f) == \/ rank[e.id] < rank[f.id]
                             \/ e.id = f.id /\ e.clock < f.clock

\* the log's order: Lamport clock, then the writer's identity
Before(e, f) == \/ e.clock < f.clock
                \/ e.clock = f.clock /\ rank[e.id] < rank[f.id]

\* the entries of a log in the log's order; entries that the order does not
\* tell apart (the same clock and writer) stand in a fixed order
RECURSIVE Sorted(_)
Sorted(S) == IF S = {} THEN <<>>
             ELSE LET first == CHOOSE e \in S : \A f \in S \ {e} : ~Before(f, e)
                  IN <<first>> \o Sorted(S \ {first})

Reverse(s) == [i \in 1..Len(s) |-> s[Len(s) + 1 - i]]

\* openDb.all(): oldest first
LogAll(S) == Sorted(S)

\* openDb.iterator(): newest first
LogIterator(S) == Reverse(Sorted(S))

ValuesOf(s) == [i \in 1..Len(s) |-> s[i].value]

----------------------------------------------------------------------------
(* Database *)

\* getAll reading the records in the order of iterator()
GetAllNewestFirst(n, name) == ValuesOf(LogIterator(oplog[n][name]))

\* Database.getAll
GetAll(n, name) == ValuesOf(LogAll(oplog[n][name]))

\* a waitFor that never rejects
TimedOutNever(elapsed, msTimeout) == FALSE

\* waitFor: `elapsedTime >= timeout`; false for every elapsedTime when the
\* timeout is undefined
TimedOut(elapsed, msTimeout) == \E t \in msTimeout : elapsed >= t

\* waitFor: elapsedTime += pollInterval (counted up to MaxPolls ticks)
Elapse(elapsed) == IF elapsed + PollInterval > MaxPolls * PollInterval
                   THEN elapsed ELSE elapsed + PollInterval

\* updateDatabase: the records of iterator() whose hash is not in entriesSeen
UnseenEntries(n) ==
  SelectSeq(LogIterator(oplog[n][DbName]), LAMBDA e : e \notin entriesSeen[n])

----------------------------------------------------------------------------
(* KeyRepository *)

\* a key set that drops the keys it is given
KeysDropped(ks, key) == ks

\* a key set that moves a key it holds to the end when the key is added again
KeysMoveLast(ks, key) == SelectSeq(ks, LAMBDA k : k # key) \o <<key>>

\* the keys kept in an array: push without a membership test
KeysPush(ks, key) == Append(ks, key)

\* this.keys.add(key) on a Set
KeysAdd(ks, key) == IF \E i \in 1..Len(ks) : ks[i] = key THEN ks ELSE Append(ks, key)

KeysHas(ks, key) == \E i \in 1..Len(ks) : ks[i] = key

\* a call of mutex.runExclusive; `seen` and `hist` are history fields
Task(op, key, value) ==
  [op |-> op, key |-> key, value |-> value, pc |-> "wait", result |-> <<>>,
   error |-> None, synced |-> FALSE, elapsed |-> 0, seen |-> {}, hist |-> <<>>]

\* a mutex that serves the newest waiting call first
EnqueueFirst(q, t) == <<t>> \o q

\* mutex.runExclusive: the calls wait in the order in which they arrive
Enqueue(q, t) == Append(q, t)

\* a key database whose listener reports no record
NoNewKeyAddedCalls(entries) == <<>>

\* newEntryAdded of the key database: onUpdate(value) = newKeyAdded(value),
\* which queues on the mutex
NewKeyAddedCalls(entries) ==
  [i \in 1..Len(entries) |-> Task("newKeyAdded", entries[i].value, None)]

\* the bodies run without the mutex
MutexIgnored(n) == TRUE

\* mutex.runExclusive starts a body only when the mutex is free
MutexFree(n) == ~locked[n]

\* add without the test of the key
AddKeyUnknownAlways(n, key) == TRUE

\* KeyRepository.add: `if (!this.keys.has(key))`
AddKeyUnknown(n, key) == ~KeysHas(keys[n], key)

\* get without the test of the key
GetKeyKnownUnchecked(n, key) == TRUE

\* KeyRepository.get: `if (!this.keys.has(key)) throw`
GetKeyKnown(n, key) == KeysHas(keys[n], key)

\* newKeyAdded that opens no database
ReplicatesNewKeyNever(n) == FALSE

\* newKeyAdded that opens the database on every node
ReplicatesNewKeyAlways(n) == TRUE

\* KeyRepository.newKeyAdded: `if (this.isCollaborator)`
ReplicatesNewKey(n) == isCollaborator[n]

\* init that waits for a provider on every Reader, offline or not
OpensExistingWhenOffline(n) == ~isCollaborator[n]

\* init that creates the key database whatever the role
OpensExistingNever(n) == FALSE

\* KeyRepository.init: a Reader that is not offline opens an existing database
OpensExisting(n) == ~isCollaborator[n] /\ ~offlineMode[n]

\* Database.initExisting is not called yet. now is the time since syncDb
\* started waitFor, joinedAt the time of the first "join" event (-1: none).
NotCalled ==
  [pc |-> "idle", msTimeout |-> {}, now |-> 0, synced |-> FALSE,
   elapsedTime |-> 0, joinedAt |-> -1, result |-> None]

\* what a persistent storage holds after an earlier run in which the
\* Collaborator added a value to key k1: the key in the key database and the
\* value in the value database of k1
PersistedLog(name) ==
  IF name = DbName THEN {[clock |-> 1, id |-> "A", value |-> "k1"]}
  ELSE IF name = ValueDbName("k1")
  THEN {[clock |-> 1, id |-> "A", value |-> Values[5]]}
  ELSE {}

\* a service before startService: no loop
NotStarted == [pc |-> "off", error |-> FALSE]

\* startService: the loop calls the service function for the first time
Running == [pc |-> "run", error |-> FALSE]

\* no call of connectToProvider yet
NoCall == [to |-> None, connected |-> FALSE, dialed |-> FALSE]

\* the bootstrapProviderPeers of the nodes: none, or the Reader is given the
\* Collaborator
BootstrapChoices ==
  {[n \in Nodes |-> {}],
   [n \in Nodes |-> IF n = "B" THEN {"A"} ELSE {}]}

----------------------------------------------------------------------------
InitWith(W) ==
  /\ workload \in W
  /\ isCollaborator = [n \in Nodes |-> n = "A"]
  /\ offlineMode \in (IF workload.options THEN [Nodes -> BOOLEAN]
                      ELSE {[n \in Nodes |-> FALSE]})
  /\ storage \in (IF workload.options THEN [Nodes -> StorageKinds]
                  ELSE {[n \in Nodes |-> "persistent"]})
  /\ direct \in (IF workload.options THEN [Nodes -> BOOLEAN]
                 ELSE {[n \in Nodes |-> FALSE]})
  /\ rank \in (IF workload.calls > 0
               THEN {[A |-> 1, B |-> 2], [A |-> 2, B |-> 1]}
               ELSE {[A |-> 1, B |-> 2]})
  /\ persisted \in (IF workload.options THEN BOOLEAN ELSE {FALSE})
  /\ oplog = [n \in Nodes |-> [name \in LogNames |->
                IF persisted /\ storage[n] = "persistent"
                THEN PersistedLog(name) ELSE {}]]
  /\ atOpen = [n \in Nodes |-> {}]
  /\ openDb = [n \in Nodes |-> [name \in LogNames |-> FALSE]]
  /\ joined = [n \in Nodes |-> [name \in LogNames |-> {}]]
  /\ initState = [n \in Nodes |-> "new"]
  /\ keyDbSync = [n \in Nodes |-> [synced |-> FALSE, elapsed |-> 0]]
  /\ entriesSeen = [n \in Nodes |-> {}]
  /\ updatePending = [n \in Nodes |-> FALSE]
  /\ keys = [n \in Nodes |-> <<>>]
  /\ keyDbs = [n \in Nodes |-> [k \in Keys |-> 0]]
  /\ dbObjects = [n \in Nodes |-> [k \in Keys |-> 0]]
  /\ locked = [n \in Nodes |-> FALSE]
  /\ waiters = [n \in Nodes |-> <<>>]
  /\ body = [n \in Nodes |-> {}]
  /\ calls = 0
  /\ appended = [n \in Nodes |-> [k \in Keys |-> <<>>]]
  /\ fresh = [n \in Nodes |-> [k \in Keys |-> None]]
  /\ valueDbs = [n \in Nodes |-> [k \in Keys |-> <<>>]]
  /\ fetched = [n \in Nodes |-> [k \in Keys |-> FALSE]]
  /\ bootstrap \in (IF workload.events > 0 \/ workload.stranger
                       \/ workload.polls # {}
                       \/ "start" \in workload.faults
                    THEN BootstrapChoices
                    ELSE {[n \in Nodes |-> {}]})
  /\ startFault \in (IF "start" \in workload.faults
                     THEN [Nodes -> StartFaults \cup {None}]
                     ELSE {[n \in Nodes |-> None]})
  /\ connections = [n \in Nodes |-> {}]
  /\ dials = [n \in Nodes |-> [p \in Nodes |-> 0]]
  /\ peerConnect = [n \in Nodes |-> {}]
  /\ connectedProviders = [n \in Nodes |-> {}]
  /\ tagged = [n \in Nodes |-> [p \in Peers |-> 0]]
  /\ skipped = [n \in Nodes |-> {}]
  /\ retryCount = [n \in Nodes |-> [p \in Peers |-> 0]]
  /\ lastConnect = [n \in Nodes |-> NoCall]
  /\ events = 0
  /\ probe = NotCalled
  /\ services = [n \in Nodes |-> [s \in ServiceNames |-> NotStarted]]
  /\ provided = [n \in Nodes |-> None]
  /\ pinned = [n \in Nodes |-> FALSE]

Init == InitWith(Workloads)

----------------------------------------------------------------------------
(* Helpers of the actions *)

\* the node's process runs and takes part in the network
Online(n) == initState[n] \in {"syncing", "ready"} /\ ~offlineMode[n]

\* updateDatabase of the key database: every unseen record is marked seen and
\* reported through newEntryAdded, in the order of iterator()
UpdateDatabase(n) ==
  /\ entriesSeen' = [entriesSeen EXCEPT ![n] = @ \cup oplog[n][DbName]]
  /\ waiters' = [waiters EXCEPT ![n] = @ \o NewKeyAddedCalls(UnseenEntries(n))]

\* Database.constructor and initNew of a value database: createDatabase,
\* setupDbEvents, and updateDatabase, which reports every entry of the log
DatabaseInitNew(n, name) ==
  [name |-> name, entriesSeen |-> oplog[n][name], listening |-> TRUE]

\* Database.constructor and createDatabase of initExisting: the "update"
\* listener is set up only after syncDb
DatabaseCreated(name) ==
  [name |-> name, entriesSeen |-> {}, listening |-> FALSE]

\* the rest of initExisting after syncDb: setupDbEvents and updateDatabase
DatabaseSynced(n, db) ==
  [db EXCEPT !.entriesSeen = oplog[n][db.name], !.listening = TRUE]

\* listeners that report nothing
ValueUpdateNone(dbs, name, log) == dbs

\* the "update" listeners of the value databases of a node on log `name`
\* (setupDbEvents): updateDatabase of each Database object that listens to
\* the log reports the entries it has not seen (newEntryAdded).  The scans
\* are taken with the notification: nothing else reads these entriesSeen.
ValueUpdate(dbs, name, log) ==
  [k \in Keys |->
     [i \in 1..Len(dbs[k]) |->
        IF dbs[k][i].name = name /\ dbs[k][i].listening
        THEN [dbs[k][i] EXCEPT !.entriesSeen = @ \cup log]
        ELSE dbs[k][i]]]

\* the log of the Database object that keyDbs holds for the key
KeyDbName(n, key) == valueDbs[n][key][keyDbs[n][key]].name

\* a head exchange brings the entries of peer m's copy of a log into n's copy;
\* the log fires "update" when entries were new
Merge(n, m, name) ==
  LET new == oplog[m][name] \ oplog[n][name] IN
  /\ oplog' = [oplog EXCEPT ![n][name] = @ \cup oplog[m][name]]
  /\ updatePending' = [updatePending EXCEPT ![n] =
        @ \/ (new # {} /\ name = DbName /\ initState[n] = "ready")]
  /\ fresh' = [fresh EXCEPT ![n] =
        [k \in Keys |-> IF new # {} /\ ValueDbName(k) = name THEN None ELSE @[k]]]
  /\ valueDbs' = [valueDbs EXCEPT ![n] =
        IF new # {} THEN ValueUpdate(@, name, oplog[n][name] \cup new) ELSE @]

\* new Database(valueDbName, ...), its initNew / initExisting, and
\* this.keyDbs.set(key, valueDb)
NewDatabase(n, key, name) ==
  /\ dbObjects' = [dbObjects EXCEPT ![n][key] = @ + 1]
  /\ keyDbs' = [keyDbs EXCEPT ![n][key] = dbObjects[n][key] + 1]
  /\ openDb' = [openDb EXCEPT ![n][name] = TRUE]
  /\ valueDbs' = [valueDbs EXCEPT ![n][key] = Append(@, DatabaseInitNew(n, name))]

\* runExclusive: the oldest waiting call gets the mutex once it is free
Runnable(n, op) ==
  /\ waiters[n] # <<>>
  /\ Head(waiters[n]).op = op
  /\ MutexFree(n)

\* the body of the oldest waiting call starts and stops at its next await
Start(n, u) ==
  /\ locked' = [locked EXCEPT ![n] = TRUE]
  /\ body' = [body EXCEPT ![n] = @ \cup {u}]

Step(n, t, u) == body' = [body EXCEPT ![n] = (@ \ {t}) \cup {u}]

\* the body ends and runExclusive releases the mutex
Finish(n, t) ==
  /\ body' = [body EXCEPT ![n] = @ \ {t}]
  /\ locked' = [locked EXCEPT ![n] = FALSE]

----------------------------------------------------------------------------
(* createAstraDb and AstraDbNode.init *)

\* createAstraDb: `if (initOptions.isCollaborator) if (!datastore || !blockstore) throw`
StorageGiven(n) == isCollaborator[n] => storage[n] # "absent"

\* AstraDbNode.init: `if (!initOptions.offlineMode) this.connectionManager = new ...`
ConnectionManagerConstructed(n) == ~offlineMode[n]

\* ConnectionManager.init, its last part: every bootstrap provider peer is
\* dialed without waiting for the outcome
ConnectionManagerInit(n) ==
  [dials EXCEPT ![n] = [p \in Nodes |-> @[p] + (IF p \in bootstrap[n] THEN 1 ELSE 0)]]

\* a constructProviderCID that pins the block whatever the role
PinsBeaconAlways(n) == TRUE

\* constructProviderCID: `if (isCollaborator)` the CID is pinned, else
\* `await this.ipfs.gc()` removes the block
PinsBeacon(n) == isCollaborator[n]

\* ConnectionManager.init: the three startService calls; provideDB is started
\* `if (isCollaborator)`
StartedServices(n) ==
  [s \in ServiceNames |->
     IF \/ s \in {"searchForProviders", "reconnectToProviders"}
        \/ s = "provideDB" /\ isCollaborator[n]
     THEN Running ELSE services[n][s]]

\* constructProviderCID has no try/catch: `await this.fs.addBytes(...)`, on a
\* Collaborator `await this.ipfs.pins.isPinned(cid)` and `pins.add(cid)`, on
\* a Reader `await this.ipfs.gc()`; init awaits it
ConstructProviderCIDThrows(n) ==
  \/ startFault[n] = "addBytes"
  \/ startFault[n] = "pin" /\ isCollaborator[n]
  \/ startFault[n] = "gc" /\ ~isCollaborator[n]

\* init: `await this.ipfs.libp2p.handle(...)` outside any try/catch
HandleThrows(n) == startFault[n] = "handle"

\* init: `const addr = multiaddr(bootstrapPeer)` inside the loop over the
\* bootstrap provider peers, outside any try/catch
BootstrapAddressThrows(n) == startFault[n] = "multiaddr" /\ bootstrap[n] # {}

\* createAstraDb and AstraDbNode.init up to the first part of
\* ConnectionManager.init: the check of the storage, startOrbitDb, the
\* ConnectionManager, and in its init constructProviderCID and the calls of
\* libp2p.handle (see Handles).
\* `await this.connectionManager.init(...)` is called whether or not the
\* ConnectionManager was constructed: on undefined it throws a TypeError.
CreateAstraDb(n) ==
  /\ ~direct[n]
  /\ initState[n] = "new"
  /\ initState' = [initState EXCEPT ![n] =
        IF ~StorageGiven(n) THEN "noStorage"
        ELSE IF ~ConnectionManagerConstructed(n) THEN "crashed"
        ELSE IF ConstructProviderCIDThrows(n) \/ HandleThrows(n)
        THEN "initFailed"
        ELSE "handlers"]
  /\ pinned' = [pinned EXCEPT ![n] =
        /\ StorageGiven(n) /\ ConnectionManagerConstructed(n) /\ PinsBeacon(n)
        /\ ~ConstructProviderCIDThrows(n)]
  /\ UNCHANGED <<network, services, provided>>
  /\ UNCHANGED <<config, probe, atOpen, valueDbs, fetched, oplog, openDb, joined, keyDbSync, entriesSeen,
                 updatePending, keys, keyDbs, dbObjects, locked, waiters, body,
                 calls, appended, fresh>>

\* the rest of ConnectionManager.init: the services are started, the
\* "peer:connect" listener is set up and the bootstrap provider peers are
\* dialed; init returns, or throws on an address multiaddr cannot parse
ConnectionManagerStart(n) ==
  /\ ~direct[n]
  /\ initState[n] = "handlers"
  /\ initState' = [initState EXCEPT ![n] =
        IF BootstrapAddressThrows(n) THEN "initFailed" ELSE "started"]
  /\ services' = [services EXCEPT ![n] = StartedServices(n)]
  /\ dials' = IF BootstrapAddressThrows(n) THEN dials
              ELSE ConnectionManagerInit(n)
  /\ UNCHANGED <<connections, peerConnect, connectedProviders, tagged, skipped, retryCount,
                 lastConnect, events, provided, pinned>>
  /\ UNCHANGED <<config, probe, atOpen, valueDbs, fetched, oplog, openDb, joined, keyDbSync, entriesSeen,
                 updatePending, keys, keyDbs, dbObjects, locked, waiters, body,
                 calls, appended, fresh>>

----------------------------------------------------------------------------
(* KeyRepository.init and the key database *)

\* keyRepository.init(offlineMode), called by AstraDbNode.init or, for a
\* KeyRepository used on its own, by its owner
KeyRepositoryInit(n) ==
  /\ initState[n] = (IF direct[n] THEN "new" ELSE "started")
  /\ openDb' = [openDb EXCEPT ![n][DbName] = TRUE]
  /\ IF OpensExisting(n)
     THEN \* initExisting: createDatabase, then syncDb waits for a join
          /\ initState' = [initState EXCEPT ![n] = "syncing"]
          /\ UNCHANGED <<entriesSeen, waiters>>
     ELSE \* initNew: createDatabase, setupDbEvents, updateDatabase
          /\ initState' = [initState EXCEPT ![n] = "ready"]
          /\ UpdateDatabase(n)
  /\ atOpen' = [atOpen EXCEPT ![n] =
        IF OpensExisting(n) THEN @ ELSE {e.value : e \in oplog[n][DbName]}]
  /\ UNCHANGED <<config, service, probe, network, valueDbs, fetched, oplog, joined, keyDbSync, updatePending, keys, keyDbs,
                 dbObjects, locked, body, calls, appended, fresh>>

\* one tick of waitFor's setInterval inside syncDb of the key database, and,
\* when the wait is settled, the rest of initExisting and of init
KeyDbPoll(n) ==
  /\ initState[n] = "syncing"
  /\ LET resolved == keyDbSync[n].synced
         e == Elapse(keyDbSync[n].elapsed)
         rejected == ~resolved /\ TimedOut(e, KeyDbTimeout)
     IN IF resolved \/ rejected
        THEN /\ UpdateDatabase(n)
             /\ keyDbSync' = [keyDbSync EXCEPT ![n].elapsed = 0]
             /\ initState' = [initState EXCEPT ![n] =
                   IF resolved THEN "ready" ELSE "failed"]
             /\ atOpen' = [atOpen EXCEPT ![n] =
                   {x.value : x \in oplog[n][DbName]}]
        ELSE /\ keyDbSync' = [keyDbSync EXCEPT ![n].elapsed = e]
             /\ UNCHANGED <<initState, entriesSeen, waiters, atOpen>>
  /\ UNCHANGED <<config, service, probe, network, valueDbs, fetched, oplog, openDb, joined, updatePending, keys, keyDbs,
                 dbObjects, locked, body, calls, appended, fresh>>

\* the "update" listener of the key database (setupDbEvents)
OnUpdate(n) ==
  /\ initState[n] = "ready"
  /\ updatePending[n]
  /\ updatePending' = [updatePending EXCEPT ![n] = FALSE]
  /\ UpdateDatabase(n)
  /\ UNCHANGED <<config, service, probe, atOpen, network, valueDbs, fetched, oplog, openDb, joined, initState, keyDbSync, keys,
                 keyDbs, dbObjects, locked, body, calls, appended, fresh>>

----------------------------------------------------------------------------
(* Replication between the nodes (OrbitDB sync) *)

\* first head exchange of node n with peer m on a log: n receives m's heads
\* and the log fires "join" (and "update" when entries were new)
Join(n, m, name) ==
  /\ n # m
  /\ Online(n) /\ Online(m)
  /\ openDb[n][name] /\ openDb[m][name]
  /\ m \notin joined[n][name]
  /\ joined' = [joined EXCEPT ![n][name] = @ \cup {m}]
  /\ Merge(n, m, name)
  /\ keyDbSync' = [keyDbSync EXCEPT ![n].synced =
        @ \/ (name = DbName /\ initState[n] = "syncing")]
  /\ body' = [body EXCEPT ![n] =
        {IF t.pc = "syncDb" /\ GetValueDbName(t.key) = name
         THEN [t EXCEPT !.synced = TRUE] ELSE t : t \in @}]
  /\ UNCHANGED <<config, service, probe, atOpen, network, fetched, openDb, initState, entriesSeen, keys, keyDbs, dbObjects,
                 locked, waiters, calls, appended>>

\* later entries of peer m reach node n
Sync(n, m, name) ==
  /\ n # m
  /\ Online(n) /\ Online(m)
  /\ openDb[n][name] /\ openDb[m][name]
  /\ m \in joined[n][name]
  /\ ~(oplog[m][name] \subseteq oplog[n][name])
  /\ Merge(n, m, name)
  /\ UNCHANGED <<config, service, probe, atOpen, network, fetched, openDb, joined, initState, keyDbSync, entriesSeen, keys,
                 keyDbs, dbObjects, locked, waiters, body, calls, appended>>

----------------------------------------------------------------------------
(* The client calls *)

\* history of a call: the keys the node's key database had reported, and the
\* values the completed add calls of all nodes had appended to the call's key,
\* when the call was issued
Issued(n, task) ==
  [task EXCEPT !.seen = {e.value : e \in entriesSeen[n]},
               !.hist = IF task.op = "get"
                        THEN [m \in Nodes |-> appended[m][task.key]]
                        ELSE <<>>]

\* a call reaches mutex.runExclusive and waits for its turn
Call(n, task) ==
  /\ initState[n] = "ready"
  /\ calls < workload.calls
  /\ IF workload.script = <<>> THEN TRUE
     ELSE workload.script[calls + 1] = [node |-> n, op |-> task.op, key |-> task.key]
  /\ calls' = calls + 1
  /\ waiters' = [waiters EXCEPT ![n] = Enqueue(@, Issued(n, task))]
  /\ fetched' = IF task.op = "get"
                THEN [fetched EXCEPT ![n][task.key] = TRUE] ELSE fetched
  /\ UNCHANGED <<config, service, probe, atOpen, network, valueDbs, oplog, openDb, joined, initState, keyDbSync, entriesSeen,
                 updatePending, keys, keyDbs, dbObjects, locked, body, appended,
                 fresh>>

CallAdd(n, key) ==
  /\ key \in workload.keys
  /\ Call(n, Task("add", key, Values[calls + 1]))

CallGet(n, key) ==
  /\ key \in workload.keys
  /\ Call(n, Task("get", key, None))

CallGetAllKeys(n) == Call(n, Task("getAllKeys", None, None))

\* the body of a get or getAllKeys call returns and the mutex is released
Return(n, t) ==
  /\ t.pc = "ret"
  /\ Finish(n, t)
  /\ UNCHANGED <<config, service, probe, atOpen, network, valueDbs, fetched, oplog, openDb, joined, initState, keyDbSync, entriesSeen,
                 updatePending, keys, keyDbs, dbObjects, waiters, calls, appended,
                 fresh>>

----------------------------------------------------------------------------
(* KeyRepository.add *)

\* `await this.keyDb.add(key)` can throw: the log of the keys rejects the
\* append (the store, the identity or the access controller fails)
KeyDbAddThrows(n, failed) == failed /\ "append" \in workload.faults

\* `if (!this.keys.has(key)) { this.keys.add(key); await this.keyDb.add(key) }`
\* Database.add appends and then reports the entry itself (newEntryAdded), so
\* the "update" listener of that append finds the entry already seen.
\* When the append throws, add throws with it: the key stays in the key set,
\* nothing is appended and runExclusive releases the mutex.
AddStart(n, failed) ==
  /\ Runnable(n, "add")
  /\ failed => KeyDbAddThrows(n, failed) /\ AddKeyUnknown(n, Head(waiters[n]).key)
  /\ LET t == Head(waiters[n])
         e == LogAppendEntry(oplog[n][DbName], n, t.key)
     IN /\ IF AddKeyUnknown(n, t.key)
           THEN /\ keys' = [keys EXCEPT ![n] = KeysAdd(@, t.key)]
                /\ IF KeyDbAddThrows(n, failed)
                   THEN /\ waiters' = [waiters EXCEPT ![n] = Tail(@)]
                        /\ UNCHANGED <<oplog, entriesSeen>>
                   ELSE /\ oplog' = [oplog EXCEPT ![n][DbName] = @ \cup {e}]
                        /\ entriesSeen' = [entriesSeen EXCEPT ![n] = @ \cup {e}]
                        /\ waiters' = [waiters EXCEPT ![n] =
                                         Tail(@) \o NewKeyAddedCalls(<<e>>)]
           ELSE /\ waiters' = [waiters EXCEPT ![n] = Tail(@)]
                /\ UNCHANGED <<keys, oplog, entriesSeen>>
        /\ IF KeyDbAddThrows(n, failed)
           THEN Start(n, [t EXCEPT !.pc = "ret", !.error = "AppendFailed"])
           ELSE Start(n, [t EXCEPT !.pc = "getValueDb"])
  /\ UNCHANGED <<config, service, probe, atOpen, network, valueDbs, fetched, openDb, joined, initState, keyDbSync, updatePending,
                 keyDbs, dbObjects, calls, appended, fresh>>

\* getValueDb(key, false)
AddGetValueDb(n, t) ==
  /\ t.op = "add" /\ t.pc = "getValueDb"
  /\ IF keyDbs[n][t.key] # 0
     THEN UNCHANGED <<keyDbs, dbObjects, openDb, valueDbs>>
     ELSE NewDatabase(n, t.key, GetValueDbName(t.key))
  /\ Step(n, t, [t EXCEPT !.pc = "append"])
  /\ UNCHANGED <<config, service, probe, atOpen, network, fetched, oplog, joined, initState, keyDbSync, entriesSeen,
                 updatePending, keys, locked, waiters, calls, appended, fresh>>

\* `await valueDb.openDb.add(value)`; the body ends
AddAppend(n, t) ==
  /\ t.op = "add" /\ t.pc = "append"
  /\ LET name == KeyDbName(n, t.key)
         e == LogAppendEntry(oplog[n][name], n, t.value)
     IN /\ oplog' = [oplog EXCEPT ![n][name] = @ \cup {e}]
        /\ valueDbs' = [valueDbs EXCEPT ![n] =
                          ValueUpdate(@, name, oplog[n][name] \cup {e})]
  /\ appended' = [appended EXCEPT ![n][t.key] = Append(@, t.value)]
  /\ fresh' = [fresh EXCEPT ![n][t.key] = t.value]
  /\ Finish(n, t)
  /\ UNCHANGED <<config, service, probe, atOpen, network, fetched, openDb, joined, initState, keyDbSync, entriesSeen,
                 updatePending, keys, keyDbs, dbObjects, waiters, calls>>

----------------------------------------------------------------------------
(* KeyRepository.get *)

\* KeyRepository.get up to its first wait
GetStart(n) ==
  /\ Runnable(n, "get")
  /\ LET t == Head(waiters[n]) IN
     IF ~GetKeyKnown(n, t.key)
     THEN \* throw new Error(`Key ${key} does not exist`)
          /\ Start(n, [t EXCEPT !.pc = "ret", !.error = "KeyNotFound"])
          /\ UNCHANGED <<openDb, valueDbs>>
     ELSE IF keyDbs[n][t.key] # 0
     THEN \* getValueDb finds the database; valueDb.getAll()
          /\ Start(n, [t EXCEPT !.pc = "ret",
                                !.result = GetAll(n, KeyDbName(n, t.key))])
          /\ UNCHANGED <<openDb, valueDbs>>
     ELSE \* getValueDb: new Database, initExisting: createDatabase, syncDb
          /\ openDb' = [openDb EXCEPT ![n][GetValueDbName(t.key)] = TRUE]
          /\ valueDbs' = [valueDbs EXCEPT ![n][t.key] =
                            Append(@, DatabaseCreated(GetValueDbName(t.key)))]
          /\ Start(n, [t EXCEPT !.pc = "syncDb"])
  /\ waiters' = [waiters EXCEPT ![n] = Tail(@)]
  /\ UNCHANGED <<config, service, probe, atOpen, network, fetched, oplog, joined, initState, keyDbSync, entriesSeen,
                 updatePending, keys, keyDbs, dbObjects, calls, appended, fresh>>

\* one tick of waitFor inside syncDb of the value database, and, when the wait
\* is settled, the rest of initExisting, this.keyDbs.set(key, valueDb) and
\* valueDb.getAll()
GetPoll(n, t) ==
  /\ t.op = "get" /\ t.pc = "syncDb"
  /\ LET e == Elapse(t.elapsed)
         rejected == ~t.synced /\ TimedOut(e, ValueDbTimeout)
     IN IF t.synced \/ rejected
        THEN /\ dbObjects' = [dbObjects EXCEPT ![n][t.key] = @ + 1]
             /\ keyDbs' = [keyDbs EXCEPT ![n][t.key] = dbObjects[n][t.key] + 1]
             /\ valueDbs' = [valueDbs EXCEPT ![n][t.key] =
                   [@ EXCEPT ![Len(@)] = DatabaseSynced(n, @)]]
             /\ Step(n, t, [t EXCEPT !.pc = "ret", !.elapsed = 0,
                                     !.result = GetAll(n, GetValueDbName(t.key))])
        ELSE /\ Step(n, t, [t EXCEPT !.elapsed = e])
             /\ UNCHANGED <<keyDbs, dbObjects, valueDbs>>
  /\ UNCHANGED <<config, service, probe, atOpen, network, fetched, oplog, openDb, joined, initState, keyDbSync, entriesSeen,
                 updatePending, keys, locked, waiters, calls, appended, fresh>>

----------------------------------------------------------------------------
(* KeyRepository.getAllKeys and KeyRepository.newKeyAdded *)

\* Array.from(this.keys)
GetAllKeysStart(n) ==
  /\ Runnable(n, "getAllKeys")
  /\ Start(n, [Head(waiters[n]) EXCEPT !.pc = "ret", !.result = keys[n]])
  /\ waiters' = [waiters EXCEPT ![n] = Tail(@)]
  /\ UNCHANGED <<config, service, probe, atOpen, network, valueDbs, fetched, oplog, openDb, joined, initState, keyDbSync, entriesSeen,
                 updatePending, keys, keyDbs, dbObjects, calls, appended, fresh>>

\* the body of newKeyAdded, from the mutex taken to the mutex released
NewKeyAddedRun(n) ==
  /\ Runnable(n, "newKeyAdded")
  /\ LET t == Head(waiters[n]) IN
     /\ keys' = [keys EXCEPT ![n] = KeysAdd(@, t.key)]
     /\ IF ReplicatesNewKey(n)
        THEN NewDatabase(n, t.key, NewKeyAddedDbName(t.key))
        ELSE UNCHANGED <<keyDbs, dbObjects, openDb, valueDbs>>
  /\ waiters' = [waiters EXCEPT ![n] = Tail(@)]
  /\ UNCHANGED <<config, service, probe, atOpen, network, fetched, oplog, joined, initState, keyDbSync, entriesSeen,
                 updatePending, locked, body, calls, appended, fresh>>

----------------------------------------------------------------------------
(* ConnectionManager *)

\* the ConnectionManager of the node is initialised and libp2p runs
Serves(n) ==
  ~direct[n] /\ initState[n] \in {"started", "syncing", "ready", "failed"}

\* the handlers of ConnectionManager.init are registered
HandlersRegistered(n) ==
  ~direct[n] /\ initState[n] \in {"handlers", "started", "syncing", "ready", "failed"}

\* init: libp2p.handle(this.protocol), and handle(this.providerProtocol) on a
\* Collaborator: the protocols the node's peer record shows to the others
Handles(n) ==
  IF ~HandlersRegistered(n) THEN {}
  ELSE IF isCollaborator[n] THEN {Protocol, ProviderProtocol}
  ELSE {Protocol}

\* connectToProvider: `if (!isPeerId(providerId)) return`
IsPeerId(p) == p # NotAPeerId

\* connectToProvider: the two tests of providerId.toString() against a gateway
IsGateway(p) == p = TrustlessGateway \/ p = FourEverland

\* connectToProvider: `providerId.equals(this.ipfs.libp2p.peerId)`
IsUs(n, p) == p = n

\* a connectToProvider without the test of the existing connections
AlreadyConnectedNever(n, p) == FALSE

\* connectToProvider: `this.ipfs.libp2p.getConnections(providerId).length > 0`
AlreadyConnected(n, p) == p \in connections[n]

\* connectToProvider: the four tests a provider passes before it is dialed
Dialable(n, p) ==
  /\ IsPeerId(p)
  /\ ~IsGateway(p)
  /\ ~IsUs(n, p)
  /\ ~AlreadyConnected(n, p)

\* connectToProvider(providerId): the four tests, then libp2p.dial without
\* waiting for its outcome. Nothing is awaited between the tests and the dial.
ConnectToProvider(n, p) ==
  LET dial == Dialable(n, p)
  IN  /\ lastConnect' = [lastConnect EXCEPT ![n] =
           [to |-> p, connected |-> p \in connections[n], dialed |-> dial]]
      /\ dials' = IF dial THEN [dials EXCEPT ![n][p] = @ + 1] ELSE dials

\* searchForProviders: routing.findProviders yields provider p and the loop
\* calls connectToProvider(p). The service runs again every 60 seconds.
SearchForProviders(n, p) ==
  /\ Serves(n)
  /\ events < workload.events
  /\ events' = events + 1
  /\ ConnectToProvider(n, p)
  /\ UNCHANGED <<connections, peerConnect, connectedProviders, tagged, skipped, retryCount>>
  /\ UNCHANGED <<config, service, probe, atOpen, valueDbs, fetched, oplog, openDb, joined, initState,
                 keyDbSync, entriesSeen, updatePending, keys, keyDbs,
                 dbObjects, locked, waiters, body, calls, appended, fresh>>

\* reconnectToProviders: one turn of the loop over connectedProviders, which
\* awaits connectToProvider(p) for each entry. The service runs every 15 s.
ReconnectToProviders(n, p) ==
  /\ Serves(n)
  /\ p \in connectedProviders[n]
  /\ events < workload.events
  /\ events' = events + 1
  /\ ConnectToProvider(n, p)
  /\ UNCHANGED <<connections, peerConnect, connectedProviders, tagged, skipped, retryCount>>
  /\ UNCHANGED <<config, service, probe, atOpen, valueDbs, fetched, oplog, openDb, joined, initState,
                 keyDbSync, entriesSeen, updatePending, keys, keyDbs,
                 dbObjects, locked, waiters, body, calls, appended, fresh>>

\* libp2p: a dial of n to p ends with a connection. Both ends have the
\* connection, and each end that had none to the other gets "peer:connect".
DialResolves(n, p) ==
  /\ dials[n][p] > 0
  /\ p # n
  /\ Serves(p)
  /\ dials' = [dials EXCEPT ![n][p] = @ - 1]
  /\ connections' = [connections EXCEPT ![n] = @ \cup {p}, ![p] = @ \cup {n}]
  /\ peerConnect' = [peerConnect EXCEPT
        ![n] = IF p \in connections[n] THEN @ ELSE @ \cup {p},
        ![p] = IF n \in connections[p] THEN @ ELSE @ \cup {n}]
  /\ UNCHANGED <<connectedProviders, tagged, skipped, retryCount, lastConnect, events>>
  /\ UNCHANGED <<config, service, probe, atOpen, valueDbs, fetched, oplog, openDb, joined, initState,
                 keyDbSync, entriesSeen, updatePending, keys, keyDbs,
                 dbObjects, locked, waiters, body, calls, appended, fresh>>

\* libp2p: a dial of n to p fails; the error is logged
DialRejects(n, p) ==
  /\ dials[n][p] > 0
  /\ dials' = [dials EXCEPT ![n][p] = @ - 1]
  /\ UNCHANGED <<connections, peerConnect, connectedProviders, tagged, skipped, retryCount,
                 lastConnect, events>>
  /\ UNCHANGED <<config, service, probe, atOpen, valueDbs, fetched, oplog, openDb, joined, initState,
                 keyDbSync, entriesSeen, updatePending, keys, keyDbs,
                 dbObjects, locked, waiters, body, calls, appended, fresh>>

\* peerInfo.protocols: the protocols the peer store records for peer p
Protocols(p) == IF p \in Nodes THEN Handles(p) ELSE {}

\* a manageNewConnection without the test of the astradb protocol
IsAstraDbPeerAlways(p) == TRUE

\* manageNewConnection: `if (!peerInfo.protocols.includes(this.protocol)) return`
IsAstraDbPeer(p) == Protocol \in Protocols(p)

\* libp2p: a peer that is no node of the database connects to n
StrangerConnects(n) ==
  /\ Serves(n)
  /\ workload.stranger
  /\ Stranger \notin connections[n]
  /\ UNCHANGED events
  /\ connections' = [connections EXCEPT ![n] = @ \cup {Stranger}]
  /\ peerConnect' = [peerConnect EXCEPT ![n] = @ \cup {Stranger}]
  /\ UNCHANGED <<dials, connectedProviders, tagged, skipped, retryCount, lastConnect>>
  /\ UNCHANGED <<config, service, probe, atOpen, repository>>

\* a manageNewConnection that retries without a limit
GivesUpNever(count) == FALSE

\* manageNewConnection: `if (retryCount > 10)` after peerStore.has(peerId)
\* answered false
GivesUp(count) == count > MaxRetries

\* peerStore.has(peerId) can answer false on node n
PeerStoreLags(n) == n \in workload.polls

\* manageNewConnection(p): peerStore.has(peerId) answers false and the handler
\* has not given up: it counts the retry and waits 100 ms for the next poll.
ManageNewConnectionWait(n, p) ==
  /\ Serves(n)
  /\ p \in peerConnect[n]
  /\ PeerStoreLags(n)
  /\ ~GivesUp(retryCount[n][p])
  /\ retryCount' = [retryCount EXCEPT ![n][p] = @ + 1]
  /\ UNCHANGED <<connections, dials, peerConnect, connectedProviders, tagged,
                 skipped, lastConnect, events>>
  /\ UNCHANGED <<config, service, probe, atOpen, repository>>

\* setupEvents / manageNewConnection(p): the last poll of the handler. The
\* peer store has the peer's record (found), or it has none and the handler
\* gives up: the peer is skipped. A peer that handles the astradb protocol is
\* tagged, and is a connected provider if it handles the provider protocol.
ManageNewConnection(n, p, found) ==
  /\ Serves(n)
  /\ p \in peerConnect[n]
  /\ found \/ (PeerStoreLags(n) /\ GivesUp(retryCount[n][p]))
  /\ retryCount' = [retryCount EXCEPT ![n][p] = 0]
  /\ peerConnect' = [peerConnect EXCEPT ![n] = @ \ {p}]
  /\ skipped' = [skipped EXCEPT ![n] = IF found THEN @ \ {p} ELSE @ \cup {p}]
  /\ IF found /\ IsAstraDbPeer(p)
     THEN /\ connectedProviders' =
               IF ProviderProtocol \in Protocols(p)
               THEN [connectedProviders EXCEPT ![n] = @ \cup {p}]
               ELSE connectedProviders
          /\ tagged' = [tagged EXCEPT ![n][p] = TagValue]
     ELSE UNCHANGED <<connectedProviders, tagged>>
  /\ UNCHANGED <<connections, dials, lastConnect, events>>
  /\ UNCHANGED <<config, service, probe, atOpen, valueDbs, fetched, oplog, openDb, joined, initState,
                 keyDbSync, entriesSeen, updatePending, keys, keyDbs,
                 dbObjects, locked, waiters, body, calls, appended, fresh>>

\* libp2p: the connection between n and p is closed
ConnectionClosed(n, p) ==
  /\ p \in connections[n]
  /\ events < workload.events
  /\ events' = events + 1
  /\ connections' = [connections EXCEPT ![n] = @ \ {p}, ![p] = @ \ {n}]
  /\ UNCHANGED <<dials, peerConnect, connectedProviders, tagged, skipped, retryCount, lastConnect>>
  /\ UNCHANGED <<config, service, probe, atOpen, valueDbs, fetched, oplog, openDb, joined, initState,
                 keyDbSync, entriesSeen, updatePending, keys, keyDbs,
                 dbObjects, locked, waiters, body, calls, appended, fresh>>

----------------------------------------------------------------------------
(* The background services (startService) *)

\* the loop of service s of node n is followed, and its service function runs
ServiceRuns(n, s) ==
  /\ <<n, s>> \in workload.loops
  /\ services[n][s].pc = "run"

\* a startService without the try/catch: an error of the service function
\* ends the loop
ServiceAfterPassUncaught(thrown) == IF thrown THEN "stopped" ELSE "sleep"

\* KeyRepository.startService: `try { await serviceFunction() } catch (error)
\* { console.error(...) }`, then the wait of the interval, whether or not the
\* service function threw
ServiceAfterPass(thrown) == "sleep"

\* a searchForProviders whose error ends the loop of the service
SearchAfterFailureStops(failed) == IF failed THEN "stopped" ELSE "sleep"

\* searchForProviders catches the error of findProviders and logs it; the
\* service function returns and startService waits for the interval
SearchAfterFailure(failed) == "sleep"

\* a provideDB that gives up after a failed provide
ProvideAfterFailureSleeps == "sleep"

\* provideDB: `while (!provided)`: the catch logs the error and the loop calls
\* routing.provide again; nothing is awaited in between
ProvideAfterFailure == "run"

\* KeyRepository.init with the reconciliation service: after the first
\* updateRepository, `this.startService(async () => { await
\* this.updateRepository() })`, which is not awaited
KeyRepositoryStartService(n) ==
  /\ <<n, "updateRepository">> \in workload.loops
  /\ initState[n] = "ready"
  /\ services[n]["updateRepository"].pc = "off"
  /\ services' = [services EXCEPT ![n]["updateRepository"] = Running]
  /\ UNCHANGED <<config, probe, atOpen, network, repository, provided, pinned>>

\* one pass of the reconciliation service: updateRepository scans the key
\* database and reports every key not yet known, or throws
UpdateRepositoryPass(n, thrown) ==
  /\ ServiceRuns(n, "updateRepository")
  /\ IF thrown THEN UNCHANGED <<entriesSeen, waiters>> ELSE UpdateDatabase(n)
  /\ services' = [services EXCEPT ![n]["updateRepository"] =
                    [pc |-> ServiceAfterPass(thrown), error |-> thrown]]
  /\ UNCHANGED <<config, probe, atOpen, network, provided, pinned>>
  /\ UNCHANGED <<valueDbs, fetched, oplog, openDb, joined, initState, keyDbSync,
                 updatePending, keys, keyDbs, dbObjects, locked, body, calls,
                 appended, fresh>>

\* one pass of the search service: findProviders yields provider p (or none)
\* and connectToProvider(p) is called; then the iteration ends or fails
SearchForProvidersPass(n, p, failed) ==
  /\ ServiceRuns(n, "searchForProviders")
  /\ p \in Nodes => dials[n][p] < MaxDials
  /\ IF p = None THEN UNCHANGED <<lastConnect, dials>>
     ELSE ConnectToProvider(n, p)
  /\ services' = [services EXCEPT ![n]["searchForProviders"] =
                    [pc |-> SearchAfterFailure(failed), error |-> failed]]
  /\ UNCHANGED <<connections, peerConnect, connectedProviders, tagged, skipped, retryCount, events>>
  /\ UNCHANGED <<config, probe, atOpen, repository, provided, pinned>>

\* a reconnectToProviders that visits no provider
ReconnectTargetsNone(n) == {}

\* reconnectToProviders: `for (const [_, providerId] of this.connectedProviders)`
ReconnectTargets(n) == connectedProviders[n]

\* one pass of the reconnection service: connectToProvider for every entry of
\* connectedProviders; the dials are not awaited
ReconnectToProvidersPass(n) ==
  /\ ServiceRuns(n, "reconnectToProviders")
  /\ \A p \in ReconnectTargets(n) : dials[n][p] < MaxDials
  /\ dials' = [dials EXCEPT ![n] =
        [p \in Nodes |-> IF p \in ReconnectTargets(n) /\ Dialable(n, p)
                         THEN @[p] + 1 ELSE @[p]]]
  /\ IF ReconnectTargets(n) = {} THEN UNCHANGED lastConnect
     ELSE \E p \in ReconnectTargets(n) :
            lastConnect' = [lastConnect EXCEPT ![n] =
              [to |-> p, connected |-> p \in connections[n],
               dialed |-> Dialable(n, p)]]
  /\ services' = [services EXCEPT ![n]["reconnectToProviders"] =
                    [pc |-> "sleep", error |-> FALSE]]
  /\ UNCHANGED <<connections, peerConnect, connectedProviders, tagged, skipped, retryCount, events>>
  /\ UNCHANGED <<config, probe, atOpen, repository, provided, pinned>>

\* provideDB: one call of routing.provide(cid) and its outcome
ProvideDBAttempt(n, ok) ==
  /\ ServiceRuns(n, "provideDB")
  /\ provided' = [provided EXCEPT ![n] = IF ok THEN "ok" ELSE "failed"]
  /\ services' = [services EXCEPT ![n]["provideDB"] =
                    [pc |-> IF ok THEN "sleep" ELSE ProvideAfterFailure,
                     error |-> ~ok]]
  /\ UNCHANGED <<config, probe, atOpen, network, repository, pinned>>

\* startService: the timer of the wait between two passes fires and the loop
\* calls the service function again
ServiceWake(n, s) ==
  /\ <<n, s>> \in workload.loops
  /\ services[n][s].pc = "sleep"
  /\ services' = [services EXCEPT ![n][s].pc = "run"]
  /\ UNCHANGED <<config, probe, atOpen, network, repository, provided, pinned>>

----------------------------------------------------------------------------
(* Database.initExisting with a timeout *)

\* initExisting(msTimeout): createDatabase, then syncDb registers onJoin and
\* starts waitFor(..., 100, msTimeout)
InitExisting(ts) ==
  /\ probe.pc = "idle"
  /\ ts \in workload.timeouts
  /\ probe' = [probe EXCEPT !.pc = "waiting", !.msTimeout = ts]
  /\ UNCHANGED <<config, service, atOpen, network, valueDbs, fetched, oplog, openDb, joined,
                 initState, keyDbSync, entriesSeen, updatePending, keys, keyDbs,
                 dbObjects, locked, waiters, body, calls, appended, fresh>>

\* syncDb: onJoin, the listener of the log's "join" event: synced = true
OnJoin ==
  /\ probe.pc = "waiting"
  /\ ~probe.synced
  /\ probe' = [probe EXCEPT !.synced = TRUE, !.joinedAt = probe.now]
  /\ UNCHANGED <<config, service, atOpen, network, valueDbs, fetched, oplog, openDb, joined,
                 initState, keyDbSync, entriesSeen, updatePending, keys, keyDbs,
                 dbObjects, locked, waiters, body, calls, appended, fresh>>

\* time passes and the timer of setInterval is not due
TimePasses ==
  /\ probe.pc = "waiting"
  /\ probe.now + Slot <= MaxTime
  /\ (probe.now + Slot) % PollInterval # 0
  /\ probe' = [probe EXCEPT !.now = @ + Slot]
  /\ UNCHANGED <<config, service, atOpen, network, valueDbs, fetched, oplog, openDb, joined,
                 initState, keyDbSync, entriesSeen, updatePending, keys, keyDbs,
                 dbObjects, locked, waiters, body, calls, appended, fresh>>

\* waitFor: the callback of setInterval, every pollInterval ms. It resolves
\* when the condition holds; otherwise it adds pollInterval to elapsedTime and
\* rejects with SyncTimeoutError when elapsedTime >= timeout. syncDb returns
\* true when waitFor resolved and false when it caught the SyncTimeoutError,
\* and initExisting returns that after setupDbEvents and updateDatabase.
WaitForTick ==
  /\ probe.pc = "waiting"
  /\ probe.now + Slot <= MaxTime
  /\ (probe.now + Slot) % PollInterval = 0
  /\ LET e == probe.elapsedTime + PollInterval
     IN  probe' =
           IF probe.synced
           THEN [probe EXCEPT !.now = @ + Slot, !.pc = "returned",
                              !.result = "true"]
           ELSE IF TimedOut(e, probe.msTimeout)
           THEN [probe EXCEPT !.now = @ + Slot, !.elapsedTime = e,
                              !.pc = "returned", !.result = "false"]
           ELSE [probe EXCEPT !.now = @ + Slot, !.elapsedTime = e]
  /\ UNCHANGED <<config, service, atOpen, network, valueDbs, fetched, oplog, openDb, joined,
                 initState, keyDbSync, entriesSeen, updatePending, keys, keyDbs,
                 dbObjects, locked, waiters, body, calls, appended, fresh>>

----------------------------------------------------------------------------
Next ==
  \/ \E n \in Nodes : CreateAstraDb(n)
  \/ \E n \in Nodes : ConnectionManagerStart(n)
  \/ \E n \in Nodes : KeyRepositoryStartService(n)
  \/ \E n \in Nodes, thrown \in BOOLEAN : UpdateRepositoryPass(n, thrown)
  \/ \E n \in Nodes, p \in Providers \cup {None}, failed \in BOOLEAN :
       SearchForProvidersPass(n, p, failed)
  \/ \E n \in Nodes : ReconnectToProvidersPass(n)
  \/ \E n \in Nodes, ok \in BOOLEAN : ProvideDBAttempt(n, ok)
  \/ \E n \in Nodes, s \in ServiceNames : ServiceWake(n, s)
  \/ \E n \in Nodes : KeyRepositoryInit(n)
  \/ \E n \in Nodes : KeyDbPoll(n)
  \/ \E n \in Nodes : OnUpdate(n)
  \/ \E n, m \in Nodes, name \in LogNames : Join(n, m, name)
  \/ \E n, m \in Nodes, name \in LogNames : Sync(n, m, name)
  \/ \E n \in Nodes, k \in Keys : CallAdd(n, k)
  \/ \E n \in Nodes, k \in Keys : CallGet(n, k)
  \/ \E n \in Nodes : CallGetAllKeys(n)
  \/ \E n \in Nodes, failed \in BOOLEAN : AddStart(n, failed)
  \/ \E n \in Nodes : \E t \in body[n] : AddGetValueDb(n, t)
  \/ \E n \in Nodes : \E t \in body[n] : AddAppend(n, t)
  \/ \E n \in Nodes : GetStart(n)
  \/ \E n \in Nodes : \E t \in body[n] : GetPoll(n, t)
  \/ \E n \in Nodes : GetAllKeysStart(n)
  \/ \E n \in Nodes : \E t \in body[n] : Return(n, t)
  \/ \E n \in Nodes : NewKeyAddedRun(n)
  \/ \E n \in Nodes, p \in Providers : SearchForProviders(n, p)
  \/ \E n, p \in Nodes : ReconnectToProviders(n, p)
  \/ \E n, p \in Nodes : DialResolves(n, p)
  \/ \E n, p \in Nodes : DialRejects(n, p)
  \/ \E n \in Nodes : StrangerConnects(n)
  \/ \E n \in Nodes, p \in Peers : ManageNewConnectionWait(n, p)
  \/ \E n \in Nodes, p \in Peers, found \in BOOLEAN :
       ManageNewConnection(n, p, found)
  \/ \E n, p \in Nodes : ConnectionClosed(n, p)
  \/ \E ts \in Timeouts : InitExisting(ts)
  \/ OnJoin
  \/ TimePasses
  \/ WaitForTick

Spec == Init /\ [][Next]_vars

\* the start of the nodes
StartSpec == InitWith(StartWorkloads) /\ [][Next]_vars

\* the ConnectionManager
ConnectionSpec == InitWith(ConnectionWorkloads) /\ [][Next]_vars

\* The event loop of a started node runs every ready continuation and timer,
\* and two online nodes that hold the same log open exchange their heads.
\* Starting a node (createAstraDb, or init of a KeyRepository used on its own)
\* and issuing a call are left to the environment.
\* the rest of ConnectionManager.init runs, a pass of a service ends, the timer
\* of startService fires, and a dial of libp2p is settled
ServiceFairness(n) ==
  /\ WF_vars(ConnectionManagerStart(n))
  /\ WF_vars(KeyRepositoryStartService(n))
  /\ WF_vars(\E thrown \in BOOLEAN : UpdateRepositoryPass(n, thrown))
  /\ WF_vars(\E p \in Providers \cup {None}, failed \in BOOLEAN :
               SearchForProvidersPass(n, p, failed))
  /\ WF_vars(ReconnectToProvidersPass(n))
  /\ WF_vars(\E ok \in BOOLEAN : ProvideDBAttempt(n, ok))
  /\ WF_vars(\E p \in Nodes : DialResolves(n, p) \/ DialRejects(n, p))
  /\ \A s \in ServiceNames : WF_vars(ServiceWake(n, s))

Fairness ==
  /\ \A n \in Nodes :
       /\ ServiceFairness(n)
       /\ WF_vars(~direct[n] /\ KeyRepositoryInit(n))
       /\ WF_vars(KeyDbPoll(n))
       /\ WF_vars(OnUpdate(n))
       /\ WF_vars(AddStart(n, FALSE))
       /\ WF_vars(\E t \in body[n] : AddGetValueDb(n, t))
       /\ WF_vars(\E t \in body[n] : AddAppend(n, t))
       /\ WF_vars(GetStart(n))
       /\ WF_vars(\E t \in body[n] : GetPoll(n, t))
       /\ WF_vars(GetAllKeysStart(n))
       /\ WF_vars(\E t \in body[n] : Return(n, t))
       /\ WF_vars(NewKeyAddedRun(n))
  /\ \A n, m \in Nodes, name \in LogNames :
       /\ WF_vars(Join(n, m, name))
       /\ WF_vars(Sync(n, m, name))

FairSpec == InitWith(FairWorkloads) /\ [][Next]_vars /\ Fairness

\* The event loop alone: every ready continuation and timer of a started node
\* runs, and nothing is assumed of the peers: a log may never be joined.
EventLoopFairness ==
  \A n \in Nodes :
    /\ ServiceFairness(n)
    /\ WF_vars(~direct[n] /\ KeyRepositoryInit(n))
    /\ WF_vars(KeyDbPoll(n))
    /\ WF_vars(OnUpdate(n))
    /\ WF_vars(AddStart(n, FALSE))
    /\ WF_vars(\E t \in body[n] : AddGetValueDb(n, t))
    /\ WF_vars(\E t \in body[n] : AddAppend(n, t))
    /\ WF_vars(GetStart(n))
    /\ WF_vars(\E t \in body[n] : GetPoll(n, t))
    /\ WF_vars(GetAllKeysStart(n))
    /\ WF_vars(\E t \in body[n] : Return(n, t))
    /\ WF_vars(NewKeyAddedRun(n))

EventLoopSpec ==
  InitWith(EventLoopWorkloads) /\ [][Next]_vars /\ EventLoopFairness

----------------------------------------------------------------------------
(* Properties *)

NoDuplicates(s) == \A i, j \in 1..Len(s) : s[i] = s[j] => i = j

Contains(s, x) == \E i \in 1..Len(s) : s[i] = x

\* a get call whose body has read the values and is about to return
Returning(n, op) == {t \in body[n] : t.op = op /\ t.pc = "ret"}

\* every entry of the node's copy of the key's log was written by the node
OnlyWriter(n, key) == \A e \in oplog[n][ValueDbName(key)] : e.id = n

\* C1: when a node is the only writer of key k and its add calls appended
\* v1, ..., vn to k, a following get(k) on that node returns exactly
\* <<v1, ..., vn>>: nothing missing, duplicated or reordered.
C1_GetReturnsOwnAppends ==
  \A n \in Nodes : \A t \in Returning(n, "get") :
    (OnlyWriter(n, t.key) /\ appended[n][t.key] # <<>>)
      => (t.error = None /\ t.result = appended[n][t.key])

C1_Witness ==
  \E n \in Nodes : \E t \in Returning(n, "get") :
    /\ OnlyWriter(n, t.key)
    /\ Len(appended[n][t.key]) = 2
    /\ t.result = appended[n][t.key]

\* C2 as stated: a get(k) issued after the node's add(k, v) returned, with no
\* later add to k on the node, returns a sequence whose last element is v.
C2_LastIsLatestAddAlways ==
  \A n \in Nodes : \A t \in Returning(n, "get") :
    (appended[n][t.key] # <<>> /\ t.hist[n] = appended[n][t.key])
      => (t.error = None /\ t.result # <<>>
          /\ t.result[Len(t.result)] =
               appended[n][t.key][Len(appended[n][t.key])])

\* C2: after add(k, v) returned on a node, and as long as no entry of another
\* node is merged into the node's copy of k after the add and the node does
\* not add to k again, get(k) on that node returns a sequence whose last
\* element is v, whatever was merged before or during the add.
C2_LastIsLatestAdd ==
  \A n \in Nodes : \A t \in Returning(n, "get") :
    fresh[n][t.key] # None
      => (t.error = None /\ t.result # <<>>
          /\ t.result[Len(t.result)] = fresh[n][t.key])

C2_Witness ==
  \E n \in Nodes : \E t \in Returning(n, "get") :
    /\ fresh[n][t.key] # None
    /\ \E e \in oplog[n][ValueDbName(t.key)] : e.id # n
    /\ Len(t.result) >= 2

\* C3: the local key set and every result of getAllKeys hold no key twice,
\* also when the key database holds the same key name in several entries.
C3_NoDuplicateKeys ==
  \A n \in Nodes :
    /\ NoDuplicates(keys[n])
    /\ \A t \in Returning(n, "getAllKeys") : NoDuplicates(t.result)

C3_Witness ==
  \E n \in Nodes : \E t \in Returning(n, "getAllKeys") :
    \E e, f \in oplog[n][DbName] :
      /\ e # f /\ e.value = f.value
      /\ {e, f} \subseteq entriesSeen[n]
      /\ Contains(t.result, e.value)
      /\ waiters[n] = <<>>

\* the step of node n that starts the body of a get call for a key that is
\* not in the local key set
GetOfUnknownKeyStarts(n) ==
  /\ waiters[n] # <<>>
  /\ Head(waiters[n]).op = "get"
  /\ ~Contains(keys[n], Head(waiters[n]).key)
  /\ waiters'[n] = Tail(waiters[n])

\* C4: get(key) for a key that is not in the local key set fails with the
\* key-not-found error in the step that starts its body: it waits for no sync,
\* opens or creates no log, and leaves the key set and the map key -> database
\* unchanged.
C4_GetUnknownKeyFails ==
  [][\A n \in Nodes :
       GetOfUnknownKeyStarts(n) =>
         /\ body'[n] = body[n] \cup
              {[Head(waiters[n]) EXCEPT !.pc = "ret", !.error = "KeyNotFound"]}
         /\ keys'[n] = keys[n]
         /\ keyDbs'[n] = keyDbs[n]
         /\ dbObjects'[n] = dbObjects[n]
         /\ openDb'[n] = openDb[n]]_vars

C4_Witness ==
  \E n \in Nodes : \E t \in Returning(n, "get") :
    /\ t.error = "KeyNotFound"
    /\ ~Contains(keys[n], t.key)
    /\ keyDbs[n][t.key] = 0
    /\ ~openDb[n][ValueDbName(t.key)]

\* C5: at most one critical body of add, get and getAllKeys is in progress on
\* a node at any time, also while further calls wait.
C5_MutualExclusion ==
  \A n \in Nodes : Cardinality(body[n]) <= 1

C5_Witness ==
  \E n \in Nodes :
    /\ Cardinality(body[n]) = 1
    /\ \E i \in 1..Len(waiters[n]) : waiters[n][i].op \in {"add", "get", "getAllKeys"}

\* the other nodes' completed adds to the call's key are those of the time the
\* call was issued: one value, added by a Collaborator; node n added none
OneRemoteValue(n, t) ==
  /\ t.hist[n] = <<>> /\ appended[n][t.key] = <<>>
  /\ \A m \in Nodes \ {n} :
       /\ isCollaborator[m]
       /\ Len(t.hist[m]) = 1
       /\ appended[m][t.key] = t.hist[m]

\* C6: on a Reader whose key database has reported key k (written by a
\* Collaborator), getAllKeys contains k, and the get(k) that opens the log of
\* k, issued after the Collaborator's add(k, v) returned and with no other add
\* to k, returns exactly <<v>>.
C6_ReaderSeesCollaboratorWrite ==
  \A n \in Nodes : ~isCollaborator[n] =>
    /\ \A t \in Returning(n, "getAllKeys") :
         \A k \in t.seen : Contains(t.result, k)
    /\ \A t \in Returning(n, "get") :
         t.key \in t.seen =>
           /\ t.error = None
           /\ (t.synced /\ OneRemoteValue(n, t))
                => \A m \in Nodes \ {n} : t.result = t.hist[m]

C6_Witness ==
  \E n \in Nodes : \E t \in Returning(n, "get") :
    /\ ~isCollaborator[n]
    /\ t.key \in t.seen
    /\ t.synced /\ OneRemoteValue(n, t)
    /\ Len(t.result) = 1
    /\ Contains(keys[n], t.key)

\* Reader m is about to append its first value to key k (its add holds the
\* mutex and has its database) while Collaborator n holds exactly one value
\* for k, its own
AppendsToHeldKey(m, n, k) ==
  /\ ~isCollaborator[m] /\ isCollaborator[n]
  /\ \E t \in body[m] : t.op = "add" /\ t.pc = "append" /\ t.key = k
  /\ appended[m][k] = <<>>
  /\ Len(appended[n][k]) = 1
  /\ GetAll(n, ValueDbName(k)) = appended[n][k]

\* what get(k) on n would return is n's value followed by the value m
\* appended, unless a further add to k has run
HoldsBoth(m, n, k) ==
  \/ /\ Len(appended[m][k]) = 1
     /\ GetAll(n, ValueDbName(k)) = appended[n][k] \o appended[m][k]
  \/ Len(appended[n][k]) > 1
  \/ Len(appended[m][k]) > 1

\* C7 as stated: when a Reader appends v2 to a key that the Collaborator holds
\* with <<v1>>, and the two stay connected, get on the Collaborator
\* eventually returns <<v1, v2>>.
C7_ReaderWriteReplicatedInOrderAlways ==
  \A m \in Nodes : \A n \in Nodes \ {m} : \A k \in Keys :
    AppendsToHeldKey(m, n, k) ~> HoldsBoth(m, n, k)

\* C7: when a Reader whose own copy of the key's log already holds the
\* Collaborator's entry appends v2 to a key that the Collaborator holds with
\* <<v1>>, and the two stay connected, get on the Collaborator eventually
\* returns <<v1, v2>>.
C7_ReaderWriteReplicatedInOrder ==
  \A m \in Nodes : \A n \in Nodes \ {m} : \A k \in Keys :
    (/\ AppendsToHeldKey(m, n, k)
     /\ oplog[n][ValueDbName(k)] \subseteq oplog[m][ValueDbName(k)])
      ~> HoldsBoth(m, n, k)

C7_Witness ==
  \E m, n \in Nodes : \E k \in Keys :
    \E e, f \in oplog[n][ValueDbName(k)] :
      /\ ~isCollaborator[m] /\ isCollaborator[n]
      /\ e.id = n /\ f.id = m /\ e.clock < f.clock
      /\ rank[m] < rank[n]
      /\ appended[n][k] = <<e.value>> /\ appended[m][k] = <<f.value>>
      /\ GetAll(n, ValueDbName(k)) = <<e.value, f.value>>

\* key k is in node n's copy of the key database only in entries of other nodes
LearnedByMerge(n, k) ==
  /\ \E e \in oplog[n][DbName] : e.value = k
  /\ \A e \in oplog[n][DbName] : e.value = k => e.id # n

\* node n knows key k, and the database of k is open and in the map
Replicates(n, k) ==
  /\ Contains(keys[n], k)
  /\ keyDbs[n][k] # 0
  /\ openDb[n][ValueDbName(k)]

\* C8: on a Collaborator, a key that reached the node only through a merge of
\* the key database is eventually in the key set with its database open and in
\* the map, from then on, and a get of the key that runs then does not fail.
C8_CollaboratorReplicatesLearnedKey ==
  /\ \A n \in Nodes : \A k \in Keys :
       (isCollaborator[n] /\ LearnedByMerge(n, k)) ~> [](Replicates(n, k))
  /\ [](\A n \in Nodes : \A t \in Returning(n, "get") :
          (isCollaborator[n] /\ LearnedByMerge(n, t.key)) =>
             (Replicates(n, t.key) => t.error = None))

C8_Witness ==
  \E n \in Nodes : \E t \in Returning(n, "get") :
    /\ isCollaborator[n]
    /\ LearnedByMerge(n, t.key)
    /\ appended[n][t.key] = <<>>
    /\ Replicates(n, t.key)
    /\ t.error = None

\* C9 as stated: a Reader that is not offline and whose key database observes
\* no join leaves the initialization: init fails with "no providers".
C9_InitWithoutProviderFails ==
  \A n \in Nodes :
    (OpensExisting(n) /\ initState[n] = "syncing")
      ~> (initState[n] = "failed" \/ joined[n][DbName] # {})

\* what the code does instead: the wait of init has no timeout, so init of a
\* Reader never fails, however many polls have passed
C9_InitNeverFails ==
  \A n \in Nodes : initState[n] # "failed"

C9_Witness ==
  \E n \in Nodes :
    /\ OpensExisting(n) /\ initState[n] = "syncing"
    /\ joined[n][DbName] = {}
    /\ keyDbSync[n].elapsed >= MaxPolls * PollInterval

\* C10: a Reader that is not offline is initialized only after its key
\* database observed a join with a remote peer.
C10_ReaderReadyOnlyAfterJoin ==
  \A n \in Nodes :
    (~isCollaborator[n] /\ ~offlineMode[n] /\ initState[n] = "ready")
      => joined[n][DbName] # {}

C10_Witness ==
  \E n \in Nodes :
    ~isCollaborator[n] /\ ~offlineMode[n] /\ initState[n] = "ready"

----------------------------------------------------------------------------
(* The start of a node *)

\* the key database of node n is opened in this step
OpensKeyDb(n) == ~openDb[n][DbName] /\ openDb'[n][DbName]

\* C11: on a Collaborator, and on any node in offline mode, the step of
\* KeyRepository.init that opens the key database also ends init: it waits
\* for no join, whatever the other nodes do, and such a node is never waiting
\* for a provider nor failed for the lack of one.
C11_InitWithoutSync ==
  /\ [](\A n \in Nodes :
          (isCollaborator[n] \/ offlineMode[n])
            => initState[n] \notin {"syncing", "failed"})
  /\ [][\A n \in Nodes :
          ((isCollaborator[n] \/ offlineMode[n]) /\ OpensKeyDb(n))
            => initState'[n] = "ready"]_vars

C11_Witness ==
  \E n \in Nodes :
    /\ ~isCollaborator[n] /\ offlineMode[n]
    /\ initState[n] = "ready"
    /\ openDb[n][DbName]
    /\ joined[n][DbName] = {}
    /\ \A m \in Nodes \ {n} : initState[m] = "new"

\* C12 as stated: the start of a node in offline mode (through createAstraDb)
\* does not fail.
C12_OfflineStartSucceeds ==
  \A n \in Nodes :
    (offlineMode[n] /\ ~direct[n]) => initState[n] \notin {"crashed", "failed"}

\* what the code does instead: a node in offline mode that has its storage
\* never gets as far as keyRepository.init
C12_OfflineStartCrashes ==
  \A n \in Nodes :
    (offlineMode[n] /\ ~direct[n]) => initState[n] \in {"new", "noStorage", "crashed"}

C12_Witness ==
  \E n \in Nodes :
    /\ offlineMode[n] /\ ~direct[n]
    /\ initState[n] = "crashed"
    /\ ~openDb[n][DbName]

\* C13 as stated: a Collaborator whose storage is absent or in memory does not
\* start: nothing of it is started or opened.
C13_CollaboratorNeedsPersistentStorage ==
  \A n \in Nodes :
    (isCollaborator[n] /\ ~direct[n] /\ storage[n] # "persistent")
      => (initState[n] \in {"new", "noStorage"} /\ ~openDb[n][DbName])

\* what the code does instead: only an absent storage stops the start
C13_AbsentStorageStopsStart ==
  \A n \in Nodes :
    (isCollaborator[n] /\ ~direct[n] /\ storage[n] = "absent")
      => (initState[n] \in {"new", "noStorage"} /\ ~openDb[n][DbName])

C13_Witness ==
  \E n \in Nodes :
    /\ isCollaborator[n] /\ ~direct[n] /\ storage[n] = "memory"
    /\ initState[n] = "ready"
    /\ openDb[n][DbName]

----------------------------------------------------------------------------
(* The ConnectionManager's dials *)

\* C14: connectToProvider never dials the node's own peer id and never dials a
\* peer to which a connection exists when it is called, whoever calls it (the
\* provider search or the reconnection service) and whatever happened before.
\* Every call passes through lastConnect, so the invariant covers every call.
C14_NoDialToSelfOrConnected ==
  \A n \in Nodes :
    lastConnect[n].dialed =>
      (lastConnect[n].to # n /\ ~lastConnect[n].connected)

\* without bootstrap peers: the Reader connected to the Collaborator through a
\* dial of connectToProvider and its next call for the same peer was skipped,
\* and the Collaborator, found as a provider by itself, was skipped too
C14_Witness ==
  /\ \A n \in Nodes : bootstrap[n] = {}
  /\ "A" \in connections["B"]
  /\ lastConnect["B"] = [to |-> "A", connected |-> TRUE, dialed |-> FALSE]
  /\ lastConnect["A"] = [to |-> "A", connected |-> FALSE, dialed |-> FALSE]

----------------------------------------------------------------------------
(* The result of Database.initExisting *)

\* a "join" event occurred after the log was opened and before the timeout expired
JoinedBeforeExpiry ==
  probe.joinedAt # -1 /\ \A t \in probe.msTimeout : probe.joinedAt < t

\* the time of the poll of waitFor at which elapsedTime reaches the timeout t:
\* the first multiple of the poll interval that is not below t
LastPoll(t) ==
  CHOOSE x \in {i * PollInterval : i \in 1..(MaxTime \div PollInterval)} :
    x >= t /\ x - PollInterval < t

\* a "join" event occurred before the poll that ends the wait
JoinedBeforeLastPoll ==
  probe.joinedAt # -1 /\ \A t \in probe.msTimeout : probe.joinedAt < LastPoll(t)

----------------------------------------------------------------------------
(* get of a key whose value database is not open *)

\* a get of node n waits in syncDb of the value database it opened
GetWaits(n) ==
  \E t \in body[n] : t.op = "get" /\ t.pc = "syncDb"

\* C20 as stated: a get of a known key whose value database is not open always
\* returns, whether or not a peer ever joins the value log: the wait of the
\* sync ends and the get leaves the critical section.
C20_GetAlwaysReturns ==
  \A n \in Nodes : GetWaits(n) ~> ~GetWaits(n)

\* what the code does instead: the wait has no timeout, so as long as no peer
\* joined the value log the get stays in syncDb and keeps the mutex
C20_GetWaitsForJoin ==
  [][\A n \in Nodes : \A t \in body[n] :
       (t.op = "get" /\ t.pc = "syncDb"
          /\ joined'[n][GetValueDbName(t.key)] = {})
       => (t.synced = FALSE /\ GetWaits(n)' /\ locked'[n])]_vars

\* a get that has waited for as long as the model counts, without a join,
\* holding the mutex
C20_Witness ==
  \E n \in Nodes : \E t \in body[n] :
    /\ t.op = "get" /\ t.pc = "syncDb"
    /\ t.elapsed >= MaxPolls * PollInterval
    /\ joined[n][GetValueDbName(t.key)] = {}
    /\ locked[n]

----------------------------------------------------------------------------
(* The value databases and their events *)

\* the entries node n emitted on the topic `name`: newEntryAdded emits the
\* value of an entry when it marks the entry seen
Emitted(n, name) ==
  UNION {UNION {IF valueDbs[n][k][i].name = name
                THEN valueDbs[n][k][i].entriesSeen ELSE {} :
                i \in 1..Len(valueDbs[n][k])} : k \in Keys}

AllEmitted(n, k) == oplog[n][ValueDbName(k)] \subseteq Emitted(n, ValueDbName(k))

\* C15: every entry of the value log of a key that a node holds open, written
\* locally or merged from a peer, one at a time or several at once, is
\* eventually emitted on the topic dbName::key (an emitted entry stays emitted).
C15_ValuesEventuallyEmitted ==
  \A n \in Nodes : \A k \in Keys :
    openDb[n][ValueDbName(k)] ~> AllEmitted(n, k)

C15_Witness ==
  \E n \in Nodes : \E k \in Keys :
    \E e, f \in oplog[n][ValueDbName(k)] :
      /\ e.id = n /\ f.id # n
      /\ openDb[n][ValueDbName(k)]
      /\ {e, f} \subseteq Emitted(n, ValueDbName(k))

\* C16 as stated: a node emits on the topic dbName::key only after get(key)
\* was called on it.
C16_EventsOnlyForFetchedKeys ==
  \A n \in Nodes : \A k \in Keys :
    Emitted(n, ValueDbName(k)) # {} => fetched[n][k]

C16_Witness ==
  \E n \in Nodes : \E k \in Keys :
    /\ ~fetched[n][k]
    /\ \E e \in Emitted(n, ValueDbName(k)) : e.id # n

\* C17: every Database object a node constructs for the value log of key k, in
\* getValueDb (add, get) and in newKeyAdded, has the name dbName::k, which is
\* not the name of the key database and not the name of another key's log.
C17_OneNamePerKey ==
  \A n \in Nodes : \A k \in Keys :
    /\ ValueDbName(k) # DbName
    /\ \A j \in Keys \ {k} : ValueDbName(j) # ValueDbName(k)
    /\ \A i \in 1..Len(valueDbs[n][k]) :
         /\ valueDbs[n][k][i].name = DbName \o "::" \o k
         /\ openDb[n][valueDbs[n][k][i].name]

C17_Witness ==
  \E n, m \in Nodes : \E k \in Keys :
    /\ n # m
    /\ isCollaborator[n]
    /\ Len(valueDbs[n][k]) >= 2
    /\ Len(valueDbs[m][k]) >= 1
    /\ fetched[m][k]

\* the step of node n that runs the body of newKeyAdded for a key that is
\* already in the local key set
NewKeyAddedOfKnownKey(n) ==
  /\ waiters[n] # <<>>
  /\ Head(waiters[n]).op = "newKeyAdded"
  /\ Contains(keys[n], Head(waiters[n]).key)
  /\ waiters'[n] = Tail(waiters[n])

\* C18 as stated: newKeyAdded for a key the node already knows changes
\* nothing: not the key set, not the map, and no Database object is
\* constructed (none is opened, none registers a listener).
C18_NewKeyAddedIdempotent ==
  [][\A n \in Nodes :
       NewKeyAddedOfKnownKey(n) =>
         /\ keys'[n] = keys[n]
         /\ keyDbs'[n] = keyDbs[n]
         /\ dbObjects'[n] = dbObjects[n]
         /\ valueDbs'[n] = valueDbs[n]]_vars

\* what the code keeps of it: the key set is unchanged
C18_NewKeyAddedKeepsKeys ==
  [][\A n \in Nodes : NewKeyAddedOfKnownKey(n) => keys'[n] = keys[n]]_vars

C18_Witness ==
  \E n \in Nodes : \E k \in Keys :
    /\ isCollaborator[n]
    /\ Len(valueDbs[n][k]) = 2
    /\ keyDbs[n][k] = 2
    /\ valueDbs[n][k][1].listening /\ valueDbs[n][k][2].listening
    /\ Cardinality({i \in 1..Len(keys[n]) : keys[n][i] = k}) = 1

----------------------------------------------------------------------------
(* The key set after init *)

\* the keys a sequence of keys holds
KeySetOf(s) == {s[i] : i \in 1..Len(s)}

\* C22: a getAllKeys call issued after init has returned, the first one
\* included, returns every key that was in the node's copy of the key
\* database when init scanned it (on a Reader: after the sync).
C22_GetAllKeysHasKeysAtOpen ==
  \A n \in Nodes : \A t \in Returning(n, "getAllKeys") :
    atOpen[n] \subseteq KeySetOf(t.result)

\* a Collaborator whose storage held key k1 answers the first call of the
\* run, a getAllKeys, with that key
C22_Witness ==
  /\ calls = 1
  /\ \E n \in Nodes : \E t \in Returning(n, "getAllKeys") :
       /\ isCollaborator[n]
       /\ atOpen[n] = {"k1"}
       /\ t.result = <<"k1">>

----------------------------------------------------------------------------
(* The value databases of a Reader *)

\* add(k, ...) was called on node n
AddCalled(n, k) ==
  \/ appended[n][k] # <<>>
  \/ \E t \in body[n] : t.op = "add" /\ t.key = k
  \/ \E i \in 1..Len(waiters[n]) : waiters[n][i].op = "add" /\ waiters[n][i].key = k

\* the step of node n that runs the body of newKeyAdded
NewKeyAddedStep(n) ==
  /\ waiters[n] # <<>>
  /\ Head(waiters[n]).op = "newKeyAdded"
  /\ waiters'[n] = Tail(waiters[n])

\* C23 as stated, its consequence: at every moment the keys whose value
\* database is open on a Reader are exactly the keys for which add or get was
\* called on that node.
C23_ReaderOpenIffCalled ==
  \A n \in Nodes : \A k \in Keys :
    ~isCollaborator[n] =>
      (openDb[n][ValueDbName(k)] <=> (AddCalled(n, k) \/ fetched[n][k]))

\* C23 as the code has it: on a Reader newKeyAdded adds the key to the key set
\* and nothing else (no value database is opened, the map is unchanged), and
\* a value database is open on a Reader only for a key for which add or get
\* was called on that node.
C23_ReaderNewKeyAddedOnlyAddsKey ==
  /\ [](\A n \in Nodes : \A k \in Keys :
         (~isCollaborator[n] /\ openDb[n][ValueDbName(k)])
           => (AddCalled(n, k) \/ fetched[n][k]))
  /\ [][\A n \in Nodes :
         (~isCollaborator[n] /\ NewKeyAddedStep(n)) =>
           /\ keys'[n] = KeysAdd(keys[n], Head(waiters[n]).key)
           /\ keyDbs'[n] = keyDbs[n]
           /\ dbObjects'[n] = dbObjects[n]
           /\ valueDbs'[n] = valueDbs[n]
           /\ openDb'[n] = openDb[n]]_vars

\* a Reader learned a key through newKeyAdded, no add or get was called for
\* it, and the Reader holds no value database of the key
C23_Witness ==
  \E n \in Nodes : \E k \in Keys :
    /\ ~isCollaborator[n]
    /\ Contains(keys[n], k)
    /\ ~AddCalled(n, k) /\ ~fetched[n][k]
    /\ ~openDb[n][ValueDbName(k)]
    /\ keyDbs[n][k] = 0

----------------------------------------------------------------------------
(* The entries of the key-to-ValueLog map *)

\* C24 as stated: once the map of a node holds a Database object for a key,
\* the entry is never removed and never replaced by another object, and no
\* second Database object is constructed for the key.
C24_MapEntryNeverReplaced ==
  [][\A n \in Nodes : \A k \in Keys :
       keyDbs[n][k] # 0 =>
         (keyDbs'[n][k] = keyDbs[n][k] /\ dbObjects'[n][k] = dbObjects[n][k])]_vars

\* what the code keeps of it: an entry is never removed, and on a Reader it is
\* never replaced and the value log is opened once
C24_MapEntryNeverRemoved ==
  [][\A n \in Nodes : \A k \in Keys :
       keyDbs[n][k] # 0 =>
         /\ keyDbs'[n][k] # 0
         /\ ~isCollaborator[n] =>
              (keyDbs'[n][k] = keyDbs[n][k] /\ dbObjects'[n][k] = dbObjects[n][k])]_vars

\* a Collaborator added a value to a new key (the add constructed the first
\* Database object of the key and appended through it), and the callback for
\* the key constructed a second object and put it in the map in its place
C24_Witness ==
  \E n \in Nodes : \E k \in Keys :
    /\ isCollaborator[n]
    /\ appended[n][k] # <<>>
    /\ dbObjects[n][k] >= 2
    /\ keyDbs[n][k] = dbObjects[n][k]
    /\ Len(valueDbs[n][k]) >= 2

----------------------------------------------------------------------------
(* The key database entries of add *)

\* the step of node n that starts the critical body of an add call
AddBodyStarts(n) ==
  /\ waiters[n] # <<>>
  /\ Head(waiters[n]).op = "add"
  /\ ~locked[n] /\ locked'[n]

\* the entries of the node's copy of the key database that the node wrote
\* for key k. An entry of an earlier run that comes back from a peer to a node
\* that did not keep its storage was written by the node of that run, whose
\* key set and logs are gone.
OwnKeyEntries(n, k) ==
  {e \in oplog[n][DbName] : e.id = n /\ e.value = k}
    \ (IF persisted /\ storage[n] # "persistent"
       THEN PersistedLog(DbName) ELSE {})

\* the body of an add of node n has ended with the error of `keyDb.add(key)`
AppendThrew(n) == \E t \in body[n] : t.op = "add" /\ t.error = "AppendFailed"

\* C25: the body of add(k, v) appends k to the key database if and only if k
\* is not in the local key set when the body starts, and a node never writes
\* two entries for the same key name, also when add calls for the same new key
\* overlap. The append of an unknown key is the call of `keyDb.add(key)`: it
\* adds one entry unless the call itself throws.
C25_AddAppendsKeyIffUnknown ==
  /\ [](\A n \in Nodes : \A k \in Keys : Cardinality(OwnKeyEntries(n, k)) <= 1)
  /\ [][\A n \in Nodes :
         AddBodyStarts(n) =>
           LET k == Head(waiters[n]).key IN
           /\ ~Contains(keys[n], k) =>
                \/ AppendThrew(n)'
                \/ /\ Cardinality(oplog'[n][DbName]) = Cardinality(oplog[n][DbName]) + 1
                   /\ \E e \in oplog'[n][DbName] \ oplog[n][DbName] :
                        e.id = n /\ e.value = k
           /\ Contains(keys[n], k) => oplog'[n][DbName] = oplog[n][DbName]]_vars

\* two add calls of a node for the same new key overlapped (the second was
\* issued before the key database had reported the key): the first is
\* complete, the second is in its body, and the node wrote one entry for the key
C25_Witness ==
  \E n \in Nodes : \E k \in Keys : \E t \in body[n] :
    /\ t.op = "add" /\ t.key = k
    /\ k \notin t.seen
    /\ appended[n][k] # <<>>
    /\ Cardinality(OwnKeyEntries(n, k)) = 1

----------------------------------------------------------------------------
(* The keys of the key database and the key set *)

\* key k is in the node's copy of the key database
InKeyIndexLog(n, k) == \E e \in oplog[n][DbName] : e.value = k

\* a call of newKeyAdded(k) waits for the mutex of the node
NewKeyAddedWaits(n, k) ==
  \E i \in 1..Len(waiters[n]) :
    waiters[n][i].op = "newKeyAdded" /\ waiters[n][i].key = k

\* C21 as stated: on a node whose init has returned, every key name in the
\* node's copy of the key database is eventually in the node's key set.
C21_LoggedKeyEventuallyInKeySet ==
  \A n \in Nodes : \A k \in Keys :
    (initState[n] = "ready" /\ InKeyIndexLog(n, k)) ~> Contains(keys[n], k)

\* what the code does instead: every key name in the node's copy of the key
\* database is in the key set, or has a call of newKeyAdded waiting for the
\* mutex, or belongs to an entry whose "update" notification is still to be
\* handled; the waiting call runs only if the mutex is ever released
C21_LoggedKeyKnownOrQueued ==
  \A n \in Nodes : initState[n] = "ready" =>
    \A e \in oplog[n][DbName] :
      \/ Contains(keys[n], e.value)
      \/ NewKeyAddedWaits(n, e.value)
      \/ updatePending[n] /\ e \notin entriesSeen[n]

\* a key that reached the Reader's copy of the key database while a get of the
\* Reader waits in syncDb with the mutex: newKeyAdded of the key is queued
C21_Witness ==
  \E n \in Nodes : \E k \in Keys :
    /\ GetWaits(n) /\ locked[n]
    /\ InKeyIndexLog(n, k)
    /\ ~Contains(keys[n], k)
    /\ NewKeyAddedWaits(n, k)

----------------------------------------------------------------------------
(* The background services *)

\* the reconciliation service of the KeyRepository of node n
Reconciliation(n) == services[n]["updateRepository"]

\* the services of the ConnectionManager
ConnectionServices == {"searchForProviders", "provideDB", "reconnectToProviders"}

\* the provideDB service of node n
Provide(n) == services[n]["provideDB"]

C27_ConnectionServicesSurviveFailures ==
  /\ [](\A n \in Nodes : \A s \in ConnectionServices :
          services[n][s].pc \in {"off", "run", "sleep"})
  /\ [][/\ \A n \in Nodes : \A s \in ConnectionServices :
            services[n][s].pc # "off" => services'[n][s].pc # "off"
        /\ (\E n, p \in Nodes : dials'[n][p] < dials[n][p]) =>
            services' = services]_vars
  /\ \A n \in Nodes : \A s \in ConnectionServices :
        services[n][s].error ~> (services[n][s].pc = "run")

\* the search service runs again after a pass that dialed a provider and
\* whose findProviders failed
C27_Witness ==
  \E n \in Nodes :
    /\ services[n]["searchForProviders"] = [pc |-> "run", error |-> TRUE]
    /\ lastConnect[n].dialed

\* C28: a round of provideDB ends only with a successful provide: after a
\* failed provide the service is at once at the next call of provide, and the
\* service waits for its interval only after a provide that succeeded.
C28_ProvideRetriesUntilSuccess ==
  /\ [](\A n \in Nodes :
          Provide(n).pc = "sleep" => (provided[n] = "ok" /\ ~Provide(n).error))
  /\ [][\A n \in Nodes :
         /\ (Provide(n).pc = "run" /\ Provide(n)'.error)
            => (Provide(n)'.pc = "run" /\ provided'[n] = "failed")
         /\ (Provide(n).pc = "run" /\ Provide(n)'.pc = "sleep")
            => provided'[n] = "ok"]_vars

\* a Collaborator whose provide failed: provideDB is at the next call of
\* provide
C28_Witness ==
  \E n \in Nodes :
    /\ isCollaborator[n]
    /\ provided[n] = "failed"
    /\ Provide(n) = [pc |-> "run", error |-> TRUE]

\* C29: a Reader never pins the provider CID, never registers the handler of
\* the provider protocol and never provides; on a Collaborator the CID is
\* pinned and both handlers are registered before any service is started.
C29_RolesOfConnectionManager ==
  \A n \in Nodes :
    /\ ~isCollaborator[n] =>
         /\ ~pinned[n]
         /\ ProviderProtocol \notin Handles(n)
         /\ Provide(n).pc = "off"
         /\ provided[n] = None
    /\ (isCollaborator[n] /\ \E s \in ConnectionServices : services[n][s].pc # "off")
         => (pinned[n] /\ Handles(n) = {Protocol, ProviderProtocol})

\* a Reader whose services run, beside a Collaborator that has provided
C29_Witness ==
  \E n, m \in Nodes :
    /\ ~isCollaborator[n]
    /\ services[n]["searchForProviders"].pc = "run"
    /\ Handles(n) = {Protocol}
    /\ isCollaborator[m]
    /\ pinned[m]
    /\ provided[m] = "ok"

----------------------------------------------------------------------------
(* manageNewConnection *)

\* the peers node n is connected to whose "peer:connect" was handled with
\* their record found in the peer store
Handled(n) == connections[n] \ (peerConnect[n] \cup skipped[n])

\* C30: every peer in connectedProviders advertised the astradb protocol and
\* the provider protocol; a peer that lacks the astradb protocol is neither a
\* connected provider nor tagged; a peer that has it is tagged with the value
\* 100 once its connection is handled, whether or not it is a provider.
C30_ProvidersAndTags ==
  \A n \in Nodes : \A p \in Peers :
    /\ p \in connectedProviders[n] =>
         {Protocol, ProviderProtocol} \subseteq Protocols(p)
    /\ Protocol \notin Protocols(p) =>
         (p \notin connectedProviders[n] /\ tagged[n][p] = 0)
    /\ (p \in Handled(n) /\ Protocol \in Protocols(p)) => tagged[n][p] = 100
    /\ tagged[n][p] \in {0, 100}

\* a node that has handled the connection of a peer outside the database,
\* which it left untagged, and of a Reader, which it tagged; and a node that
\* has a connected provider
C30_Witness ==
  /\ \E n \in Nodes :
       /\ Stranger \in Handled(n)
       /\ tagged[n][Stranger] = 0
       /\ \E p \in Handled(n) \cap Nodes :
            /\ ~isCollaborator[p]
            /\ p \notin connectedProviders[n]
            /\ tagged[n][p] = 100
  /\ \E m \in Nodes : \E q \in connectedProviders[m] : tagged[m][q] = 100

----------------------------------------------------------------------------
(* The polls of manageNewConnection *)

\* the handler of the "peer:connect" event of peer p on node n takes a step
HandlerStep(n, p) ==
  /\ p \in peerConnect[n]
  /\ \/ retryCount'[n][p] # retryCount[n][p]
     \/ p \notin peerConnect'[n]

\* the handler of p on node n ends without the record of p
GaveUp(n, p) ==
  /\ p \in peerConnect[n] /\ p \notin peerConnect'[n]
  /\ p \in skipped'[n]

\* C31: a new-connection handler waits at most 11 times for the record of the
\* peer; every wait leaves the known providers and the tags as they are; when
\* the record is missing at each poll the handler ends after the 11th wait,
\* and not before, leaving the known providers and the tags of the peer
\* unchanged; when the record is there at a poll, the handler classifies the
\* peer: an astradb peer is tagged, and a provider is added to the set.
C31_BoundedPollsThenGiveUp ==
  /\ [](\A n \in Nodes : \A p \in Peers : retryCount[n][p] <= 11)
  /\ [][\A n \in Nodes : \A p \in Peers : HandlerStep(n, p) =>
         /\ (p \in peerConnect'[n]) =>
              /\ retryCount'[n][p] = retryCount[n][p] + 1
              /\ retryCount[n][p] < 11
              /\ connectedProviders' = connectedProviders
              /\ tagged' = tagged
         /\ GaveUp(n, p) =>
              /\ retryCount[n][p] = 11
              /\ connectedProviders' = connectedProviders
              /\ tagged' = tagged
         /\ (p \notin peerConnect'[n] /\ ~GaveUp(n, p)) =>
              /\ Protocol \in Protocols(p) => tagged'[n][p] = 100
              /\ {Protocol, ProviderProtocol} \subseteq Protocols(p)
                   => p \in connectedProviders'[n]
              /\ Protocol \notin Protocols(p)
                   => (connectedProviders' = connectedProviders
                       /\ tagged' = tagged)]_vars

\* the handler of the Reader for the Collaborator, a provider with both
\* protocols, has given up after its polls: the Collaborator is connected,
\* has no tag and is no known provider
C31_Witness ==
  \E n \in Nodes : \E p \in skipped[n] \cap connections[n] :
    /\ {Protocol, ProviderProtocol} \subseteq Protocols(p)
    /\ p \notin peerConnect[n]
    /\ p \notin connectedProviders[n]
    /\ tagged[n][p] = 0

----------------------------------------------------------------------------
(* The reconnection service *)

\* the reconnection service of node n
Reconnection(n) == services[n]["reconnectToProviders"]

\* the loop of the reconnection service of node n is followed and has started
ReconnectionFollowed(n) ==
  /\ <<n, "reconnectToProviders">> \in workload.loops
  /\ Reconnection(n).pc # "off"

\* a pass of the reconnection service of node n ends in this step
ReconnectionPassEnds(n) ==
  /\ <<n, "reconnectToProviders">> \in workload.loops
  /\ Reconnection(n).pc = "run"
  /\ Reconnection(n)'.pc = "sleep"

\* node n knows provider p and has no connection to it
Lost(n, p) == p \in connectedProviders[n] /\ p # n /\ p \notin connections[n]

\* C32: no provider ever leaves the set of known providers; every pass of the
\* reconnection service dials each known provider that is not the node itself
\* and to which the node has no connection; and while the service runs, a
\* known provider whose connection is lost is eventually dialed again, unless
\* the connection is back before.
C32_LostProvidersRedialed ==
  /\ [][\A n \in Nodes : connectedProviders[n] \subseteq connectedProviders'[n]]_vars
  /\ [][\A n \in Nodes : ReconnectionPassEnds(n) =>
         \A p \in Nodes : Lost(n, p) => dials'[n][p] = dials[n][p] + 1]_vars
  /\ \A n, p \in Nodes :
        (ReconnectionFollowed(n) /\ Lost(n, p))
          ~> (dials[n][p] > 0 \/ p \in connections[n])

\* the connection of the Reader to a known provider was closed and a pass of
\* the reconnection service has dialed the provider again
C32_Witness ==
  \E n, p \in Nodes :
    /\ ReconnectionFollowed(n)
    /\ Lost(n, p)
    /\ events > 0
    /\ Reconnection(n).pc = "sleep"
    /\ lastConnect[n] = [to |-> p, connected |-> FALSE, dialed |-> TRUE]
    /\ dials[n][p] = 1

----------------------------------------------------------------------------
(* The failures of ConnectionManager.init *)

\* ConnectionManager.init of node n threw
InitFailed(n) == initState[n] = "initFailed"

\* ConnectionManager.init of node n has ended, one way or the other
InitEnded(n) ==
  ~direct[n] /\ initState[n] \in {"initFailed", "started", "syncing", "ready", "failed"}

\* C33 as stated: ConnectionManager.init fails only when the registration of
\* a protocol handler fails.
C33_InitFailsOnlyOnHandlerRegistration ==
  \A n \in Nodes : InitFailed(n) => HandleThrows(n)

\* C33, what the code does: ConnectionManager.init fails exactly when
\* constructProviderCID throws (the creation of the beacon, the pin on a
\* Collaborator, the garbage collection on a Reader), when libp2p.handle
\* throws, or when a bootstrap address cannot be parsed.
C33_InitFailsOnUncaughtStep ==
  \A n \in Nodes : InitEnded(n) =>
    (InitFailed(n) <=> \/ ConstructProviderCIDThrows(n)
                       \/ HandleThrows(n)
                       \/ BootstrapAddressThrows(n))

\* the init of a Reader failed because ipfs.gc threw, and the init of a
\* Collaborator because the pin threw; no registration of a handler failed
C33_Witness ==
  \E n, m \in Nodes :
    /\ InitFailed(n) /\ ~isCollaborator[n] /\ startFault[n] = "gc"
    /\ InitFailed(m) /\ isCollaborator[m] /\ startFault[m] = "pin"

----------------------------------------------------------------------------
(* The order of getAllKeys *)

\* s is a prefix of t
IsPrefix(s, t) == Len(s) <= Len(t) /\ \A i \in 1..Len(s) : s[i] = t[i]

\* the step in which the body of a getAllKeys call of node n reads the keys
GetAllKeysReads(n) ==
  /\ waiters[n] # <<>>
  /\ Head(waiters[n]).op = "getAllKeys"
  /\ waiters'[n] = Tail(waiters[n])

\* C34: getAllKeys returns the local key set as it is when the body of the
\* call runs, the result stays a prefix of the key set until it is returned,
\* and every step leaves the key set a prefix of what it becomes: keys are
\* added at the end, none is removed or moved. So the result of a call is a
\* prefix of the result of every later call on the node.
C34_GetAllKeysGrowsByPrefix ==
  /\ [](\A n \in Nodes : \A t \in Returning(n, "getAllKeys") :
          t.error = None /\ IsPrefix(t.result, keys[n]))
  /\ [][\A n \in Nodes :
         /\ IsPrefix(keys[n], keys'[n])
         /\ GetAllKeysReads(n) =>
              \E t \in body'[n] : t.op = "getAllKeys" /\ t.result = keys[n]]_vars

\* getAllKeys returns two keys on the node that added them, after a
\* getAllKeys on the other node
C34_Witness ==
  \E n \in Nodes : \E t \in Returning(n, "getAllKeys") :
    /\ Len(t.result) = 2
    /\ t.result = keys[n]
    /\ t.result[1] # t.result[2]
    /\ calls = 4

----------------------------------------------------------------------------
(* add and its own newKeyAdded callback *)

\* an add call of node n for key k, which node n does not know, waits for the
\* mutex
NewKeyAddWaits(n, k) ==
  /\ ~Contains(keys[n], k)
  /\ \E i \in 1..Len(waiters[n]) : waiters[n][i].op = "add" /\ waiters[n][i].key = k

\* the body of an add call of node n runs
AddRuns(n) == \E t \in body[n] : t.op = "add"

\* C35 as stated: an add call for a key that is new to the node completes,
\* whatever else the node is doing.
C35_AddOfNewKeyCompletes ==
  \A n \in Nodes : \A k \in Keys :
    NewKeyAddWaits(n, k) ~> (appended[n][k] # <<>>)

\* C35, what holds: the add of a new key queues its newKeyAdded callback on
\* the mutex it holds and goes on; the callback runs only when the mutex is
\* free, after the add; and the body of an add, once started, completes and
\* releases the mutex. The call itself completes only if the mutex is
\* released by the calls before it.
C35_AddNeverWaitsForItsCallback ==
  /\ [][\A n \in Nodes : AddBodyStarts(n) =>
         LET k == Head(waiters[n]).key IN
           ~Contains(keys[n], k) =>
             /\ waiters'[n] # <<>>
             /\ waiters'[n][Len(waiters'[n])].op = "newKeyAdded"
             /\ waiters'[n][Len(waiters'[n])].key = k
             /\ AddRuns(n)']_vars
  /\ [][\A n \in Nodes :
         (waiters[n] # <<>> /\ Head(waiters[n]).op = "newKeyAdded"
            /\ waiters'[n] = Tail(waiters[n]))
           => (~locked[n] /\ ~AddRuns(n))]_vars
  /\ \A n \in Nodes : AddRuns(n) ~> ~locked[n]

\* the Reader has added a key of its own after its get returned, and the
\* callback of its add has run
C35_Witness ==
  \E n \in Nodes : \E k \in Keys :
    /\ workload.script = AddScript
    /\ ~isCollaborator[n]
    /\ appended[n][k] # <<>>
    /\ OwnKeyEntries(n, k) # {}
    /\ waiters[n] = <<>> /\ ~locked[n]

----------------------------------------------------------------------------
(* The reports of the entries *)

\* the Database objects of node n for key k that have reported entry e to
\* the topic of the log (newEntryAdded: this.events.emit)
Reporters(n, k, e) ==
  {i \in 1..Len(valueDbs[n][k]) : e \in valueDbs[n][k][i].entriesSeen}

\* C36 as stated: an entry of a log is reported at most once on a node.
C36_EntryReportedOnce ==
  \A n \in Nodes : \A k \in Keys : \A e \in oplog[n][ValueDbName(k)] :
    Cardinality(Reporters(n, k, e)) <= 1

\* C36, what holds: a Reader constructs at most one Database object for the
\* value log of a key, so on a Reader an entry is reported at most once; the
\* key database has one Database object on every node, whose scans report
\* the entries they have not seen.
C36_ReaderReportsOnce ==
  \A n \in Nodes : ~isCollaborator[n] =>
    \A k \in Keys :
      /\ Len(valueDbs[n][k]) <= 1
      /\ \A e \in oplog[n][ValueDbName(k)] : Cardinality(Reporters(n, k, e)) <= 1

\* the Collaborator has reported the value of its own add twice, and the
\* Reader, which holds the same entry, once
C36_Witness ==
  \E n, m \in Nodes : \E k \in Keys : \E e \in oplog[n][ValueDbName(k)] :
    /\ e.id = n
    /\ Cardinality(Reporters(n, k, e)) = 2
    /\ ~isCollaborator[m]
    /\ Cardinality(Reporters(m, k, e)) = 1

----------------------------------------------------------------------------
(* An add whose append to the log of the keys fails *)

\* C37 as stated: a key is in the local key set only if an entry for it was
\* appended to or merged into the node's copy of the log of the keys; an add
\* whose append of the key fails leaves the key set unchanged.
C37_KnownKeyIsIndexed ==
  \A n \in Nodes : \A k \in Keys : Contains(keys[n], k) => InKeyIndexLog(n, k)

\* C37, what holds: the body of add(k, v) puts k in the key set before it
\* appends k, so k is in the key set after the first step of the body whether
\* the append succeeded or threw; a body that finds k in the key set appends
\* nothing to the log of the keys.
C37_KeyKnownBeforeAppend ==
  [][\A n \in Nodes : AddBodyStarts(n) =>
       LET k == Head(waiters[n]).key IN
         /\ Contains(keys'[n], k)
         /\ Contains(keys[n], k) => oplog'[n][DbName] = oplog[n][DbName]]_vars

\* an add of k failed on its append of the key, the add was retried and
\* stored its value, and no node's log of the keys has an entry for k
C37_Witness ==
  \E n \in Nodes : \E k \in Keys :
    /\ "append" \in workload.faults
    /\ calls = MaxCallsFault
    /\ Contains(keys[n], k)
    /\ appended[n][k] # <<>>
    /\ waiters[n] = <<>> /\ ~locked[n]
    /\ \A m \in Nodes : ~InKeyIndexLog(m, k)

----------------------------------------------------------------------------
(* The map of the value logs *)

\* C38: every key that has an entry in the map of the value logs (keyDbs) is
\* in the local key set: add puts the key in the set before it opens the
\* log, get throws unless the key is in the set, and newKeyAdded puts the key
\* in the set before it constructs the Database.
C38_OpenedKeysAreKnown ==
  \A n \in Nodes : \A k \in Keys : keyDbs[n][k] # 0 => Contains(keys[n], k)

\* a value log is open on the Collaborator, which learnt the key from an add
\* or from its callback, and on the Reader, which opened the log in a get and
\* never added to it
C38_Witness ==
  \E n, m \in Nodes : \E k \in Keys :
    /\ isCollaborator[n] /\ keyDbs[n][k] # 0 /\ Contains(keys[n], k)
    /\ ~isCollaborator[m] /\ keyDbs[m][k] # 0 /\ Contains(keys[m], k)
    /\ fetched[m][k] /\ appended[m][k] = <<>>

----------------------------------------------------------------------------
(* The dials outstanding *)

\* C39 as stated: at most one dial of a node to a given provider is
\* outstanding at any time.
C39_OneDialOutstanding ==
  \A n, p \in Nodes : dials[n][p] <= 1

\* C39, what holds: a step starts at most one dial of a node to a provider,
\* and after the start of the node a dial is started only to another peer to
\* which the node has no connection; the dials outstanding are not tested.
C39_OneDialPerCall ==
  [][\A n, p \in Nodes : dials'[n][p] > dials[n][p] =>
       /\ dials'[n][p] = dials[n][p] + 1
       /\ initState'[n] = initState[n] => (p # n /\ p \notin connections[n])]_vars

\* two calls of connectToProvider for the same provider have each started a
\* dial, neither dial has completed and the node has no connection to the
\* provider
C39_Witness ==
  \E n, p \in Nodes :
    /\ p # n
    /\ dials[n][p] = 2
    /\ events >= 2
    /\ p \notin connections[n]
    /\ lastConnect[n] = [to |-> p, connected |-> FALSE, dialed |-> TRUE]

====
